---- MODULE Spec2Model ----
(***************************************************************************)
(* A model of rua's module resolver (rua_gen/src/logic.rs): RuaRunner::run *)
(* reads the manifest, seeds a work stack of crate modules, pops modules,  *)
(* resolves and parses their source files, pushes the modules they declare *)
(* and forwards the accepted declarations to the backend.                  *)
(*                                                                         *)
(* The environment (manifest, file system, parsed file contents, the       *)
(* backend's inclusion predicate) is an input.  The manifest is fixed in   *)
(* Init; a path of the file system is decided the first time the run looks *)
(* at it and is remembered in `disk`, so one path always has one content.  *)
(***************************************************************************)
EXTENDS Naturals, Sequences, FiniteSets, TLC

VARIABLES
    manifest,   \* environment: what <entry>/Cargo.toml holds
    disk,       \* environment: the paths looked at so far and what is there
    modules,    \* RuaRunner.modules, the work stack (Vec<Module>)
    pc,         \* position inside run: "start", "loop", "walk", "returned"
    cur,        \* the popped Module whose file is being walked (<<m>> or <<>>)
    curPath,    \* the entry_path argument of handle_parsed_file
    items,      \* parsed.items of the file being walked
    idx,        \* position of the for loop of handle_parsed_file
    result,     \* what run returned (tag "None" while it is running)
    pushedLog,  \* history: every Module pushed, in push order, with its origin
    popped,     \* history: ids of the Modules popped, in pop order
    reads,      \* history: every file read and parsed successfully
    asked,      \* history: the calls of rua.should_include
    emitted,    \* the backend: calls of write_fn / write_struct / write_enum
    input,      \* a syntax node or string handed to a conversion of models.rs
    output      \* what the conversion returned (tag "None" before the call)

vars == <<manifest, disk, modules, pc, cur, curPath, items, idx, result,
          pushedLog, popped, reads, asked, emitted, input, output>>

\* the state of the resolver
runVars == <<manifest, disk, modules, pc, cur, curPath, items, idx, result,
             pushedLog, popped, reads, asked, emitted>>

----------------------------------------------------------------------------
(* Bounds of the model. *)

\* size of the project: the members its workspace lists and the top-level
\* items of its source files, all together
MaxDecls == 3

\* names a module declaration or a workspace member can have
ModNames == {"a", "b"}

----------------------------------------------------------------------------
(* Paths are sequences of components. *)

EntryPath == <<"native">>

Join(path, component) == Append(path, component)

IsProperPrefix(p, q) ==
    /\ Len(p) < Len(q)
    /\ SubSeq(q, 1, Len(p)) = p

\* the directory a file path lies in (Path::parent)
Parent(path) == SubSeq(path, 1, Len(path) - 1)

----------------------------------------------------------------------------
(* Modules. *)

CrateModule == "CrateModule"
FileModule == "FileModule"

\* Module::new
ModuleNew(name, ty, root_path) ==
    [name |-> name, ty |-> ty, root_path |-> root_path]

\* a Module on the stack: id, its push number, tells apart Modules that are
\* equal field by field
WithId(m, id) ==
    [name |-> m.name, ty |-> m.ty, root_path |-> m.root_path, id |-> id]

\* the Module without its identity
Plain(m) == ModuleNew(m.name, m.ty, m.root_path)

\* push the Modules of ms in order; n Modules were pushed before
RECURSIVE PushAll(_, _, _)
PushAll(stack, ms, n) ==
    IF ms = <<>> THEN stack
    ELSE PushAll(Append(stack, WithId(Head(ms), n + 1)), Tail(ms), n + 1)

\* Vec::pop: the last element and the rest (the Vec is not empty)
\* faulty variant: takes the oldest Module instead
VecPopFront(stack) == [m |-> Head(stack), rest |-> Tail(stack)]
VecPop(stack) ==
    [m |-> stack[Len(stack)], rest |-> SubSeq(stack, 1, Len(stack) - 1)]

----------------------------------------------------------------------------
(* The manifest. Option values are sequences of length at most one. *)

RECURSIVE SeqsUpTo(_, _)
SeqsUpTo(S, n) ==
    IF n = 0 THEN {<<>>}
    ELSE LET shorter == SeqsUpTo(S, n - 1)
         IN shorter \cup {Append(s, x) : s \in shorter, x \in S}

Packages == {<<>>, <<[name |-> <<>>]>>, <<[name |-> <<"p">>]>>}
Workspaces == {<<>>} \cup {<<[members |-> ms]>> : ms \in SeqsUpTo(ModNames, MaxDecls)}

Manifests ==
    {[status |-> "ok", package |-> p, workspace |-> w] :
        p \in Packages, w \in Workspaces}
    \cup {[status |-> s, package |-> <<>>, workspace |-> <<>>] :
            s \in {"unreadable", "unparsable"}}

Ok == [tag |-> "Ok", path |-> <<>>]
None == [tag |-> "None", path |-> <<>>]
Err(tag, path) == [tag |-> tag, path |-> path]

\* read_and_parse_toml
ReadAndParseToml(path) ==
    IF manifest.status = "unreadable" THEN Err("ReadFileErr", path)
    ELSE IF manifest.status = "unparsable" THEN Err("ParseError", path)
    ELSE Ok

\* handle_cargo_package: the Modules it pushes
HandleCargoPackage(package) ==
    IF package # <<>>
    THEN IF package[1].name # <<>>
         THEN <<ModuleNew(package[1].name[1], CrateModule, EntryPath)>>
         ELSE <<>>
    ELSE <<>>

\* handle_cargo_workspace: the Modules it pushes, in push order
\* faulty variant: roots every member at the entry root
HandleCargoWorkspaceFlat(workspace) ==
    IF workspace # <<>>
    THEN [i \in 1..Len(workspace[1].members) |->
            ModuleNew(workspace[1].members[i], CrateModule, EntryPath)]
    ELSE <<>>
HandleCargoWorkspace(workspace) ==
    IF workspace # <<>>
    THEN [i \in 1..Len(workspace[1].members) |->
            ModuleNew(workspace[1].members[i], CrateModule,
                      Join(EntryPath, workspace[1].members[i]))]
    ELSE <<>>

----------------------------------------------------------------------------
(* Source files. *)

\* syn::Item as far as the resolver looks at it: its kind, its name, its
\* visibility ("pub", "restricted" for pub(crate) and the like, "inherited")
\* and incl, what the backend's should_include answers for it.  The items of
\* the model: a public mod, and a private one that has its body with it (its
\* content is there), and for each kind of declaration an accepted one, and
\* ones rejected for the different reasons.
Item(kind, name, vis, incl) ==
    [kind |-> kind, name |-> name, vis |-> vis, incl |-> incl]
ModItems ==
    {Item("mod", "a", "pub", TRUE),
     [kind |-> "mod", name |-> "b", vis |-> "inherited", incl |-> TRUE,
      content |-> <<"{ .. }">>]}
DeclItems ==
    {Item("struct", "S", "pub", TRUE), Item("struct", "S", "pub", FALSE),
     Item("struct", "S", "inherited", TRUE),
     Item("enum", "E", "pub", TRUE), Item("enum", "E", "restricted", TRUE),
     Item("fn", "f", "pub", TRUE)}
OtherItems == {Item("other", "", "inherited", TRUE)}
Items == ModItems \cup DeclItems \cup OtherItems

Contents(n) == SeqsUpTo(Items, n)

Absent == [kind |-> "absent", items |-> <<>>]
\* something that cannot be read as text: a directory, a file without
\* permission, bytes that are no UTF-8
Unreadable == [kind |-> "unreadable", items |-> <<>>]
Unparsable == [kind |-> "unparsable", items |-> <<>>]
Src(c) == [kind |-> "src", items |-> c]

\* the top-level items of the files of d
RECURSIVE SumItems(_, _)
SumItems(d, S) ==
    IF S = {} THEN 0
    ELSE LET p == CHOOSE q \in S : TRUE
         IN Len(d[p].items) + SumItems(d, S \ {p})

Members(mf) == IF mf.workspace = <<>> THEN <<>> ELSE mf.workspace[1].members

\* how many items a file not looked at so far can have
ItemsLeft(mf, d) == MaxDecls - Len(Members(mf)) - SumItems(d, DOMAIN d)

\* the contents a source file not looked at so far can have
Sources(mf, d) == {Src(c) : c \in Contents(ItemsLeft(mf, d))}

\* a path below something that was read as a file does not exist
BelowFile(d, p) ==
    \E q \in DOMAIN d : IsProperPrefix(q, p) /\ d[q].kind \in {"unparsable", "src"}

\* what can be at a path that is read if it exists
Anything(mf, d, p) ==
    IF BelowFile(d, p) THEN {Absent}
    ELSE {Absent, Unreadable, Unparsable} \cup Sources(mf, d)

\* what can be at a path the run only tests for existence
Presence(d, p) ==
    IF BelowFile(d, p) THEN {Absent}
    ELSE {Absent, Src(<<>>)}

\* the disks that agree with d and also say what is at p
Look(d, p, choices) ==
    IF p \in DOMAIN d THEN {d} ELSE {d @@ (p :> e) : e \in choices}

\* Path::exists
Exists(d, p) == p \in DOMAIN d /\ d[p].kind # "absent"

\* rua.read_file (the direct file system read) followed by syn::parse_file
ReadAndParseFile(d, path) ==
    IF d[path].kind \in {"absent", "unreadable"}
    THEN [res |-> Err("ReadFileErr", path), items |-> <<>>]
    ELSE IF d[path].kind = "unparsable"
    THEN [res |-> Err("ParseError", path), items |-> <<>>]
    ELSE [res |-> Ok, items |-> d[path].items]

\* get_valid_file_path: <<path>> or <<>>
\* faulty variant: prefers n/mod.rs
GetValidFilePathModFirst(d, module) ==
    LET flat == Join(module.root_path, module.name \o ".rs")
        nested == Join(Join(module.root_path, module.name), "mod.rs")
    IN IF Exists(d, nested) THEN <<nested>>
       ELSE IF Exists(d, flat) THEN <<flat>>
       ELSE <<>>
GetValidFilePath(d, module) ==
    LET flat == Join(module.root_path, module.name \o ".rs")
        nested == Join(Join(module.root_path, module.name), "mod.rs")
    IN IF Exists(d, flat) THEN <<flat>>
       ELSE IF Exists(d, nested) THEN <<nested>>
       ELSE <<>>

\* read_crate_module: the file it reads and the entry_path it walks with
CrateEntryPath(module) == Join(module.root_path, "src")
CrateFilePath(module) == Join(CrateEntryPath(module), "lib.rs")

\* read_file_module: the entry_path it hands to handle_parsed_file
FileEntryPath(path) == path

----------------------------------------------------------------------------
(* The inclusion filter and the item handlers. *)

\* RuaVisible::is_pub of ItemFn, ItemEnum, ItemStruct and ItemMod
\* faulty variant: pub(crate) and the like count as public
IsPubOrRestricted(item) == item.vis \in {"pub", "restricted"}
IsPub(item) == item.vis = "pub"

\* should_include_item: does it call rua.should_include, and its result
AsksBackend(item) == IsPub(item)
\* faulty variant: accepts everything
ShouldIncludeItemNoFilter(item) == TRUE
ShouldIncludeItem(item) ==
    IF ~IsPub(item) THEN FALSE
    ELSE IF ~item.incl THEN FALSE
    ELSE TRUE

\* the backend call a handler makes for an accepted item: m is the Module it
\* passes, i the position of the item in its file
Call(handler, m, i, item) ==
    [handler |-> handler, m |-> m, idx |-> i, item |-> item]

\* handle_item_struct / handle_item_enum / handle_item_fn: the calls made
HandleItemStruct(m, i, item) ==
    IF ~ShouldIncludeItem(item) THEN <<>>
    ELSE <<Call("write_struct", m, i, item)>>

HandleItemEnum(m, i, item) ==
    IF ~ShouldIncludeItem(item) THEN <<>>
    ELSE <<Call("write_enum", m, i, item)>>

\* faulty variant: hands a function to write_struct
HandleItemFnAsStruct(m, i, item) ==
    IF ~ShouldIncludeItem(item) THEN <<>>
    ELSE <<Call("write_struct", m, i, item)>>
HandleItemFn(m, i, item) ==
    IF ~ShouldIncludeItem(item) THEN <<>>
    ELSE <<Call("write_fn", m, i, item)>>

\* handle_item_mod: the Module it pushes (whether or not the mod is public)
\* faulty variant: skips a mod that is not public
HandleItemModPubOnly(entry_path, item) ==
    IF IsPub(item) THEN <<ModuleNew(item.name, FileModule, entry_path)>>
    ELSE <<>>
\* faulty variant: skips a mod that has its body with it
HandleItemModNoBody(entry_path, item) ==
    IF "content" \in DOMAIN item THEN <<>>
    ELSE <<ModuleNew(item.name, FileModule, entry_path)>>
HandleItemMod(entry_path, item) ==
    <<ModuleNew(item.name, FileModule, entry_path)>>

----------------------------------------------------------------------------
(* run *)

\* the ? operator: go on after Ok, return the error otherwise
\* faulty variant: goes on after an error
PropagateSwallow(res, next) == next
Propagate(res, next) == IF res.tag = "Ok" THEN next ELSE "returned"

\* while let Some(module) = self.modules.pop()
\* faulty variant: leaves the last Module unpopped
LoopEndsEarly(stack) == Len(stack) <= 1
LoopEnds(stack) == stack = <<>>

\* history of a push: the Module, the id of the Module whose file declares
\* it (0: the manifest), that file, and the declaring item with its position
Origin(m, by, file, item, i) ==
    [m |-> m, by |-> by, file |-> file, item |-> item, idx |-> i]

Origins(ms, n, by, file, item, i) ==
    [j \in 1..Len(ms) |-> Origin(WithId(ms[j], n + j), by, file, item, i)]

NoItem == [kind |-> "none", name |-> "", vis |-> "inherited", incl |-> TRUE]

\* no conversion is under way
NoInput == [op |-> "none"]
NoOutput == [tag |-> "None"]

Init ==
    /\ manifest \in Manifests
    /\ disk = <<>>
    /\ modules = <<>>
    /\ pc = "start"
    /\ cur = <<>>
    /\ curPath = <<>>
    /\ items = <<>>
    /\ idx = 1
    /\ result = None
    /\ pushedLog = <<>>
    /\ popped = <<>>
    /\ reads = <<>>
    /\ asked = <<>>
    /\ emitted = <<>>
    /\ input = NoInput
    /\ output = NoOutput

\* read_entry_module, and the ? of run after it
ReadEntryModule ==
    /\ pc = "start"
    /\ LET path == Join(EntryPath, "Cargo.toml")
           res == ReadAndParseToml(path)
           seeds == IF res.tag = "Ok"
                    THEN HandleCargoPackage(manifest.package)
                         \o HandleCargoWorkspace(manifest.workspace)
                    ELSE <<>>
       IN /\ modules' = PushAll(modules, seeds, Len(pushedLog))
          /\ pushedLog' = pushedLog \o Origins(seeds, Len(pushedLog), 0, path, NoItem, 0)
          /\ result' = IF res.tag = "Ok" THEN result ELSE res
          /\ pc' = Propagate(res, "loop")
    /\ UNCHANGED <<input, output, manifest, disk, cur, curPath, items, idx, popped, reads,
                   asked, emitted>>

\* what is left of read_module once the file was looked for and read
AfterRead(m, rest, d, res, path, entry_path, parsed) ==
    /\ disk' = d
    /\ modules' = rest
    /\ popped' = Append(popped, m.id)
    /\ result' = IF res.tag = "Ok" THEN result ELSE res
    /\ pc' = Propagate(res, "walk")
    /\ cur' = IF res.tag = "Ok" THEN <<m>> ELSE <<>>
    /\ curPath' = IF res.tag = "Ok" THEN entry_path ELSE <<>>
    /\ items' = parsed
    /\ idx' = 1
    /\ reads' = IF res.tag = "Ok"
                THEN Append(reads, [id |-> m.id, path |-> path, items |-> parsed])
                ELSE reads
    /\ UNCHANGED <<input, output, manifest, pushedLog, asked, emitted>>

\* modules.pop() of a crate module, read_module -> read_crate_module up to
\* the call of handle_parsed_file
ReadCrateModule ==
    /\ pc = "loop"
    /\ ~LoopEnds(modules)
    /\ LET m == VecPop(modules).m
           rest == VecPop(modules).rest
           path == CrateFilePath(m)
       IN /\ m.ty = CrateModule
          /\ \E d \in Look(disk, path, Anything(manifest, disk, path)) :
                LET r == ReadAndParseFile(d, path)
                IN AfterRead(m, rest, d, r.res, path, CrateEntryPath(m), r.items)

\* modules.pop() of a file module, read_module -> read_file_module up to the
\* call of handle_parsed_file
ReadFileModule ==
    /\ pc = "loop"
    /\ ~LoopEnds(modules)
    /\ LET m == VecPop(modules).m
           rest == VecPop(modules).rest
           flat == Join(m.root_path, m.name \o ".rs")
           nested == Join(Join(m.root_path, m.name), "mod.rs")
       IN /\ m.ty = FileModule
          /\ \E d1 \in Look(disk, flat, Anything(manifest, disk, flat)) :
             \E d \in Look(d1, nested,
                           IF Exists(d1, flat) THEN Presence(d1, nested)
                           ELSE Anything(manifest, d1, nested)) :
                LET found == GetValidFilePath(d, Plain(m))
                IN IF found = <<>>
                   THEN AfterRead(m, rest, d, Err("FileNotFoundErr", <<m.name>>),
                                  <<>>, <<>>, <<>>)
                   ELSE LET r == ReadAndParseFile(d, found[1])
                        IN AfterRead(m, rest, d, r.res, found[1],
                                     FileEntryPath(found[1]), r.items)

Walking == pc = "walk" /\ idx <= Len(items)

\* handle_parsed_file, one turn of its loop on a mod item
WalkMod ==
    /\ Walking
    /\ items[idx].kind = "mod"
    /\ LET ms == HandleItemMod(curPath, items[idx])
       IN /\ modules' = PushAll(modules, ms, Len(pushedLog))
          /\ pushedLog' = pushedLog
                \o Origins(ms, Len(pushedLog), cur[1].id, reads[Len(reads)].path,
                           items[idx], idx)
    /\ idx' = idx + 1
    /\ UNCHANGED <<input, output, manifest, disk, pc, cur, curPath, items, result, popped,
                   reads, asked, emitted>>

\* faulty variant: the backend sees the latest call first
WalkDeclPrepend(kind, calls) ==
    /\ Walking
    /\ items[idx].kind = kind
    /\ emitted' = calls \o emitted
    /\ asked' = IF AsksBackend(items[idx])
                THEN Append(asked, [id |-> cur[1].id, idx |-> idx])
                ELSE asked
    /\ idx' = idx + 1
    /\ UNCHANGED <<input, output, manifest, disk, modules, pc, cur, curPath, items, result,
                   pushedLog, popped, reads>>
WalkDecl(kind, calls) ==
    /\ Walking
    /\ items[idx].kind = kind
    /\ emitted' = emitted \o calls
    /\ asked' = IF AsksBackend(items[idx])
                THEN Append(asked, [id |-> cur[1].id, idx |-> idx])
                ELSE asked
    /\ idx' = idx + 1
    /\ UNCHANGED <<input, output, manifest, disk, modules, pc, cur, curPath, items, result,
                   pushedLog, popped, reads>>

\* handle_parsed_file, one turn of its loop on a struct item
WalkStruct == WalkDecl("struct", HandleItemStruct(cur[1], idx, items[idx]))

\* handle_parsed_file, one turn of its loop on an enum item
WalkEnum == WalkDecl("enum", HandleItemEnum(cur[1], idx, items[idx]))

\* handle_parsed_file, one turn of its loop on a fn item
WalkFn == WalkDecl("fn", HandleItemFn(cur[1], idx, items[idx]))

\* handle_parsed_file, one turn of its loop on any other item
WalkOther ==
    /\ Walking
    /\ items[idx].kind = "other"
    /\ idx' = idx + 1
    /\ UNCHANGED <<input, output, manifest, disk, modules, pc, cur, curPath, items, result,
                   pushedLog, popped, reads, asked, emitted>>

\* handle_parsed_file returns, read_module returns Ok, run loops
EndParsedFile ==
    /\ pc = "walk"
    /\ idx > Len(items)
    /\ pc' = "loop"
    /\ cur' = <<>>
    /\ curPath' = <<>>
    /\ items' = <<>>
    /\ idx' = 1
    /\ UNCHANGED <<input, output, manifest, disk, modules, result, pushedLog, popped, reads,
                   asked, emitted>>

\* the stack is empty: run returns Ok(())
RunReturnsOk ==
    /\ pc = "loop"
    /\ LoopEnds(modules)
    /\ result' = Ok
    /\ pc' = "returned"
    /\ UNCHANGED <<input, output, manifest, disk, modules, cur, curPath, items, idx, pushedLog,
                   popped, reads, asked, emitted>>

Next ==
    \/ ReadEntryModule
    \/ ReadCrateModule
    \/ ReadFileModule
    \/ WalkMod
    \/ WalkStruct
    \/ WalkEnum
    \/ WalkFn
    \/ WalkOther
    \/ EndParsedFile
    \/ RunReturnsOk

Spec == Init /\ [][Next]_vars

\* run is one thread of control: it takes its next step whenever it has one
FairSpec == Spec /\ WF_vars(Next)

----------------------------------------------------------------------------
(* Vocabulary of the properties. *)

Returned == pc = "returned"
Failed == result.tag \notin {"None", "Ok"}

DeclKinds == {"struct", "enum", "fn"}

\* item i of the k-th file read has been handled by handle_parsed_file
Walked(k, i) ==
    /\ k \in 1..Len(reads)
    /\ i \in 1..Len(reads[k].items)
    /\ (k < Len(reads) \/ pc # "walk" \/ i < idx)

\* the backend calls made for item i of the file of the Module with this id
CallsFor(id, i) ==
    {j \in 1..Len(emitted) : emitted[j].m.id = id /\ emitted[j].idx = i}

\* the pushes made for item i of the file of the Module with this id
PushesFor(id, i) ==
    {j \in 1..Len(pushedLog) : pushedLog[j].by = id /\ pushedLog[j].idx = i}

\* the file a popped Module was resolved to, <<>> when none was found
UsedFile(id) ==
    IF \E k \in 1..Len(reads) : reads[k].id = id
    THEN <<reads[CHOOSE k \in 1..Len(reads) : reads[k].id = id].path>>
    ELSE IF /\ popped # <<>>
            /\ id = popped[Len(popped)]
            /\ result.tag \in {"ReadFileErr", "ParseError"}
    THEN <<result.path>>
    ELSE <<>>

PoppedIds == {popped[j] : j \in 1..Len(popped)}

----------------------------------------------------------------------------
(* Properties. *)

\* C1: every file Module pushed while a parsed file is walked is rooted at
\* the directory that contains that file (<root>/src for <root>/src/lib.rs,
\* the directory of d/n.rs or d/n/mod.rs for a file module), never at the
\* file path itself.
C1_RootedAtFileDirectory ==
    \A j \in 1..Len(pushedLog) :
        pushedLog[j].m.ty = FileModule
            => pushedLog[j].m.root_path = Parent(pushedLog[j].file)

\* C2: a popped file module n with root d uses d/n.rs when it exists,
\* otherwise d/n/mod.rs when that exists; when neither exists run returns
\* the file-not-found error naming n.
C2_FileModuleResolution ==
    \A j \in 1..Len(popped) :
        LET m == pushedLog[popped[j]].m
            flat == Join(m.root_path, m.name \o ".rs")
            nested == Join(Join(m.root_path, m.name), "mod.rs")
        IN m.ty = FileModule =>
            IF Exists(disk, flat) THEN UsedFile(m.id) = <<flat>>
            ELSE IF Exists(disk, nested) THEN UsedFile(m.id) = <<nested>>
            ELSE /\ j = Len(popped)
                 /\ Returned
                 /\ result = Err("FileNotFoundErr", <<m.name>>)

\* C2 happens: a file module was read from d/n.rs while d/n/mod.rs exists too
C2_Witness ==
    \E k \in 1..Len(reads) :
        LET m == pushedLog[reads[k].id].m
        IN /\ m.ty = FileModule
           /\ reads[k].path = Join(m.root_path, m.name \o ".rs")
           /\ Exists(disk, Join(Join(m.root_path, m.name), "mod.rs"))

\* C3: once a manifest, read, parse or file-not-found failure has occurred
\* run has returned it: no Module is popped or read and no backend handler is
\* called afterwards, also when Modules are still on the stack.
C3_ErrorReturnsImmediately ==
    [][Failed => /\ Returned
                 /\ modules' = modules
                 /\ popped' = popped
                 /\ reads' = reads
                 /\ emitted' = emitted]_vars

\* C3 happens: run failed with Modules still on the stack
C3_Witness == Failed /\ Returned /\ modules # <<>>

\* the manifest was read and nothing was popped yet
AfterManifest == pc = "loop" /\ popped = <<>>

NamedPackage == manifest.package # <<>> /\ manifest.package[1].name # <<>>

\* the stack holds a crate Module rooted at the entry root iff hasPackage,
\* followed by one crate Module rooted at <entry>/<member> per member
SeedsAre(hasPackage) ==
    LET ms == Members(manifest)
        off == IF hasPackage THEN 1 ELSE 0
    IN /\ Len(modules) = off + Len(ms)
       /\ hasPackage =>
            /\ modules[1].ty = CrateModule
            /\ modules[1].root_path = EntryPath
       /\ \A i \in 1..Len(ms) :
            /\ modules[off + i].ty = CrateModule
            /\ modules[off + i].name = ms[i]
            /\ modules[off + i].root_path = Join(EntryPath, ms[i])

\* nothing was seeded: run returns Ok and the backend saw nothing
EmptyRun == Returned => (result = Ok /\ emitted = <<>> /\ pushedLog = <<>>)

\* C4 as stated: after the manifest is read the stack holds exactly one crate
\* Module rooted at the entry root when the manifest declares a package, plus
\* one rooted at <entry>/<member> per workspace member; when it declares
\* neither the stack is empty and run returns Ok with no emission.
C4_SeedsForDeclaredPackage ==
    /\ AfterManifest => SeedsAre(manifest.package # <<>>)
    /\ (manifest.status = "ok" /\ manifest.package = <<>>
            /\ Members(manifest) = <<>>) => EmptyRun

\* C4 as amended: the crate Module of the entry root is pushed when the
\* manifest declares a package that has a name; a package without a name
\* seeds nothing.
C4_SeedsForNamedPackage ==
    /\ AfterManifest => SeedsAre(NamedPackage)
    /\ (manifest.status = "ok" /\ ~NamedPackage
            /\ Members(manifest) = <<>>) => EmptyRun

\* C4 happens: a package and the members [a, b] seeded three Modules
C4_Witness ==
    /\ AfterManifest
    /\ NamedPackage
    /\ Members(manifest) = <<"a", "b">>
    /\ Len(modules) = 3

Accepted(item) == item.vis = "pub" /\ item.incl

\* C5: a struct, enum or function declaration reaches a backend handler if
\* and only if it is public and the backend's predicate accepts it, and
\* nothing else is ever handed to a handler.
C5_EmittedIffPublicAndIncluded ==
    /\ \A k \in 1..Len(reads) : \A i \in 1..Len(reads[k].items) :
        (Walked(k, i) /\ reads[k].items[i].kind \in DeclKinds)
            => (CallsFor(reads[k].id, i) # {} <=> Accepted(reads[k].items[i]))
    /\ \A j \in 1..Len(emitted) :
        /\ emitted[j].item.kind \in DeclKinds
        /\ Accepted(emitted[j].item)

\* C5 happens: a crate root with a public struct and a struct that is not
\* public was walked to its end and gave exactly one emission
C5_Witness ==
    /\ pc = "loop"
    /\ Len(reads) = 1
    /\ reads[1].items = <<Item("struct", "S", "pub", TRUE),
                          Item("struct", "S", "inherited", TRUE)>>
    /\ Len(emitted) = 1
    /\ emitted[1].handler = "write_struct"

HandlerOf(kind) ==
    IF kind = "fn" THEN "write_fn"
    ELSE IF kind = "struct" THEN "write_struct"
    ELSE "write_enum"

\* C6: every accepted declaration is forwarded exactly once, to the handler
\* of its own kind, together with the Module whose source file declares it,
\* which is the popped Module and none of the pending ones.
C6_OneHandlerOwningModule ==
    /\ \A k \in 1..Len(reads) : \A i \in 1..Len(reads[k].items) :
        (Walked(k, i) /\ reads[k].items[i].kind \in DeclKinds
            /\ Accepted(reads[k].items[i]))
            => Cardinality(CallsFor(reads[k].id, i)) = 1
    /\ \A j \in 1..Len(emitted) :
        LET e == emitted[j]
        IN /\ e.handler = HandlerOf(e.item.kind)
           /\ e.m.id \in PoppedIds
           /\ e.m = pushedLog[e.m.id].m
           /\ \A n \in 1..Len(modules) : modules[n].id # e.m.id
           /\ \E k \in 1..Len(reads) :
                /\ reads[k].id = e.m.id
                /\ e.idx \in 1..Len(reads[k].items)
                /\ reads[k].items[e.idx] = e.item

\* C6 happens: a function was forwarded while another Module was pending
C6_Witness ==
    /\ modules # <<>>
    /\ \E j \in 1..Len(emitted) : emitted[j].handler = "write_fn"

\* every accepted declaration of every file read so far was dispatched
AllDispatched ==
    \A k \in 1..Len(reads) : \A i \in 1..Len(reads[k].items) :
        (reads[k].items[i].kind \in DeclKinds /\ Accepted(reads[k].items[i]))
            => CallsFor(reads[k].id, i) # {}

\* every Module pushed was popped and its file read
AllRead ==
    \A n \in 1..Len(pushedLog) : \E k \in 1..Len(reads) : reads[k].id = n

\* C7 as stated: a run that returns an error has handed nothing to the
\* backend; a run that returns Ok has dispatched every accepted declaration
\* of every discovered module.
C7_NoPartialOutput ==
    /\ (Returned /\ Failed) => emitted = <<>>
    /\ (Returned /\ result = Ok) => (AllRead /\ AllDispatched)

\* C7 as amended: a run that returns an error has handed the backend the
\* accepted declarations of the files it walked before the failure, and these
\* emissions stay (partial output); a run that returns Ok has dispatched
\* every accepted declaration of every discovered module.
C7_OutputUpToTheFailure ==
    /\ (Returned /\ Failed) =>
        /\ AllDispatched
        /\ \A j \in 1..Len(emitted) :
            \E k \in 1..Len(reads) : reads[k].id = emitted[j].m.id
    /\ (Returned /\ result = Ok) => (AllRead /\ AllDispatched)

\* C7 happens: run returned an error after the backend received an emission
C7_Witness == Returned /\ Failed /\ emitted # <<>>

NoRepeats(seq) ==
    \A i, j \in 1..Len(seq) : seq[i] = seq[j] => i = j

\* C8: run terminates, and when it returns Ok the stack is empty and every
\* Module pushed was popped and resolved exactly once; no Module is popped a
\* second time.
C8_TerminatesEachModuleOnce ==
    /\ <>Returned
    /\ [](NoRepeats(popped) /\ PoppedIds \subseteq 1..Len(pushedLog))
    /\ []((Returned /\ result = Ok) =>
            /\ modules = <<>>
            /\ PoppedIds = 1..Len(pushedLog)
            /\ AllRead
            /\ NoRepeats([k \in 1..Len(reads) |-> reads[k].id]))

\* C8 happens: run returned Ok after resolving a crate and a file module
C8_Witness ==
    /\ Returned
    /\ result = Ok
    /\ \E n \in 1..Len(pushedLog) : pushedLog[n].m.ty = FileModule

\* C9: the Module popped is always the most recently pushed one that is
\* still pending.
C9_Lifo ==
    [][popped' # popped =>
        /\ Len(popped') = Len(popped) + 1
        /\ \A n \in 1..Len(modules) : modules[n].id <= popped'[Len(popped')]
        /\ \E n \in 1..Len(modules) : modules[n].id = popped'[Len(popped')]]_vars

\* C9 happens: of the workspace members [a, b], b was popped and a is pending
C9_Witness ==
    /\ Members(manifest) = <<"a", "b">>
    /\ Len(popped) = 1
    /\ pushedLog[popped[1]].m.name = "b"
    /\ \E n \in 1..Len(modules) : modules[n].name = "a"

\* C10: every mod declaration walked pushes one file Module, public or not,
\* so the public declarations of a private module reach the backend.
C10_ModsPushedWhateverVisibility ==
    \A k \in 1..Len(reads) : \A i \in 1..Len(reads[k].items) :
        (Walked(k, i) /\ reads[k].items[i].kind = "mod") =>
            \E n \in PushesFor(reads[k].id, i) :
                /\ pushedLog[n].m.ty = FileModule
                /\ pushedLog[n].m.name = reads[k].items[i].name
                /\ (n \in PoppedIds \/ \E j \in 1..Len(modules) : modules[j].id = n)

\* C10 happens: a declaration of a module declared without pub was emitted
C10_Witness ==
    \E j \in 1..Len(emitted) :
        /\ pushedLog[emitted[j].m.id].m.ty = FileModule
        /\ pushedLog[emitted[j].m.id].item.vis # "pub"

\* the Module of call k was pushed for a mod item of the file of call j
DeclaredBy(j, k) == pushedLog[emitted[k].m.id].by = emitted[j].m.id

\* C23: the calls made for one file come in the order of its items, with no
\* call for another file among them, and before every call made for the file
\* of a module that file declares.
C23_DispatchOrder ==
    \A j \in 1..Len(emitted) : \A k \in 1..Len(emitted) :
        /\ \E r \in 1..Len(reads) :
                /\ reads[r].id = emitted[j].m.id
                /\ emitted[j].idx \in 1..Len(reads[r].items)
                /\ reads[r].items[emitted[j].idx] = emitted[j].item
        /\ (j < k /\ emitted[j].m.id = emitted[k].m.id) =>
                /\ emitted[j].idx < emitted[k].idx
                /\ \A l \in j..k : emitted[l].m.id = emitted[j].m.id
        /\ DeclaredBy(j, k) => j < k

\* C23 happens: a file declares a module and then a declaration that is
\* accepted; the call for it came before the call for a declaration of the
\* file of that module
C23_Witness ==
    \E j \in 1..Len(emitted) : \E k \in 1..Len(emitted) :
        /\ DeclaredBy(j, k)
        /\ pushedLog[emitted[k].m.id].idx < emitted[j].idx
        /\ j < k

\* C25: a turn of the loop of handle_parsed_file on a mod item, with a body
\* or without, pushes one file Module of its name, rooted at the entry path
\* of the walk, on top of the stack; a turn on any other item, and the end
\* of the walk, leave the stack as it is.
C25_WalkOnlyPushes ==
    [][pc = "walk" =>
        IF idx <= Len(items) /\ items[idx].kind = "mod"
        THEN /\ Len(modules') = Len(modules) + 1
             /\ SubSeq(modules', 1, Len(modules)) = modules
             /\ Plain(modules'[Len(modules')])
                    = ModuleNew(items[idx].name, FileModule, curPath)
        ELSE modules' = modules]_vars

\* C25 happens: a file with a mod, a mod with a body and in between a
\* declaration that is accepted was walked; the stack holds the two Modules
\* in the order of the items
C25_Witness ==
    /\ pc = "loop"
    /\ Len(modules) = 2
    /\ reads # <<>>
    /\ LET r == reads[Len(reads)]
       IN /\ Len(r.items) = 3
          /\ r.items[1].kind = "mod" /\ "content" \notin DOMAIN r.items[1]
          /\ r.items[2].kind \in DeclKinds /\ ShouldIncludeItem(r.items[2])
          /\ r.items[3].kind = "mod" /\ "content" \in DOMAIN r.items[3]
          /\ modules[1].name = r.items[1].name
          /\ modules[2].name = r.items[3].name
          /\ r.items[1].name # r.items[3].name

\* the backend was asked about item i of the file of the Module with this id
AskedFor(id, i) == {j \in 1..Len(asked) : asked[j].id = id /\ asked[j].idx = i}

\* C26: a struct, enum or function whose visibility is not plain pub (it is
\* restricted, or inherited) is handed to no handler of the backend, and the
\* backend is not asked whether to include it; the backend is asked about
\* public declarations only.
C26_OnlyPlainPub ==
    /\ \A k \in 1..Len(reads) : \A i \in 1..Len(reads[k].items) :
        (reads[k].items[i].kind \in DeclKinds
            /\ reads[k].items[i].vis \in {"restricted", "inherited"}) =>
                /\ CallsFor(reads[k].id, i) = {}
                /\ AskedFor(reads[k].id, i) = {}
    /\ \A j \in 1..Len(asked) : \E k \in 1..Len(reads) :
        /\ reads[k].id = asked[j].id
        /\ reads[k].items[asked[j].idx].vis = "pub"
        /\ reads[k].items[asked[j].idx].kind \in DeclKinds

\* C26 happens: a file with a pub(crate) enum, a private struct and a public
\* function was walked: the backend was asked about the function only
C26_Witness ==
    /\ pc = "loop"
    /\ Len(reads) = 1
    /\ Len(reads[1].items) = 3
    /\ reads[1].items[1].kind = "enum" /\ reads[1].items[1].vis = "restricted"
    /\ reads[1].items[2].kind = "struct" /\ reads[1].items[2].vis = "inherited"
    /\ reads[1].items[3].kind = "fn" /\ reads[1].items[3].vis = "pub"
    /\ asked = <<[id |-> reads[1].id, idx |-> 3]>>
    /\ Len(emitted) = 1

\* C11: whenever run has returned, with Ok or with an error, no Module is
\* left on the runner's work stack, so a later run on the same runner starts
\* from the modules its manifest seeds and nothing else.
C11_StackEmptyOnReturn == Returned => modules = <<>>

----------------------------------------------------------------------------
(* Names (models.rs, mod rua_name).  A string is a sequence of characters, *)
(* a character is a string of length one.                                  *)

\* the longest string handed to a name operation
MaxLen == 3

\* the characters the strings of the model are made of: lower and upper case
\* letters, the underscore and a digit
Chars == {"a", "b", "A", "B", "_", "1"}

Lowers ==
    <<"a", "b", "c", "d", "e", "f", "g", "h", "i", "j", "k", "l", "m",
      "n", "o", "p", "q", "r", "s", "t", "u", "v", "w", "x", "y", "z">>
Uppers ==
    <<"A", "B", "C", "D", "E", "F", "G", "H", "I", "J", "K", "L", "M",
      "N", "O", "P", "Q", "R", "S", "T", "U", "V", "W", "X", "Y", "Z">>
Digits == {"0", "1", "2", "3", "4", "5", "6", "7", "8", "9"}

\* char::is_ascii_lowercase, is_ascii_uppercase
IsAsciiLowercase(c) == \E i \in 1..Len(Lowers) : Lowers[i] = c
IsAsciiUppercase(c) == \E i \in 1..Len(Uppers) : Uppers[i] = c

\* char::to_ascii_lowercase, to_ascii_uppercase
ToAsciiLowercase(c) ==
    IF IsAsciiUppercase(c)
    THEN Lowers[CHOOSE i \in 1..Len(Uppers) : Uppers[i] = c]
    ELSE c
ToAsciiUppercase(c) ==
    IF IsAsciiLowercase(c)
    THEN Uppers[CHOOSE i \in 1..Len(Lowers) : Lowers[i] = c]
    ELSE c

\* RuaCased::is_snake_case
IsSnakeCase(s) ==
    IF s = <<>> THEN FALSE
    ELSE \A i \in 1..Len(s) : IsAsciiLowercase(s[i]) \/ s[i] = "_"

\* RuaCased::is_camel_case
IsCamelCase(s) ==
    IF s = <<>> THEN FALSE
    ELSE IF IsSnakeCase(s) THEN FALSE
    ELSE IsAsciiLowercase(s[1])

\* RuaCased::is_pascal_case
IsPascalCase(s) ==
    IF s = <<>> THEN FALSE
    ELSE IF IsSnakeCase(s) THEN FALSE
    ELSE IsAsciiUppercase(s[1])

\* the closure of to_snake_case, on the characters after the first
RECURSIVE SnakeRest(_)
SnakeRest(s) ==
    IF s = <<>> THEN <<>>
    ELSE (IF IsAsciiUppercase(Head(s))
          THEN <<"_", ToAsciiLowercase(Head(s))>>
          ELSE <<Head(s)>>) \o SnakeRest(Tail(s))

\* RuaCaseConverter::to_snake_case (utils.rs): chars is cloned for the first
\* character, so the map runs over every character, the first included
RuaCaseConverterToSnakeCase(s) ==
    LET first == IF s = <<>> THEN <<>> ELSE <<ToAsciiLowercase(Head(s))>>
        rest == SnakeRest(s)
    IN first \o rest

\* RuaCased::to_snake_case
\* faulty variant: a capital is made small and gets no underscore
ToSnakeCaseFlat(s) == [i \in 1..Len(s) |-> ToAsciiLowercase(s[i])]
ToSnakeCase(s) ==
    IF s = <<>> THEN <<>>
    ELSE <<ToAsciiLowercase(Head(s))>> \o SnakeRest(Tail(s))

\* the loop of to_camel_case from character i on: res is the string built so
\* far, prev_is_dash its flag
RECURSIVE CamelLoop(_, _, _, _)
CamelLoop(s, i, res, prev_is_dash) ==
    IF i > Len(s) THEN res
    ELSE IF i = 1
    THEN CamelLoop(s, i + 1, Append(res, ToAsciiLowercase(s[i])), prev_is_dash)
    ELSE IF s[i] = "_" THEN CamelLoop(s, i + 1, res, TRUE)
    ELSE IF prev_is_dash
    THEN CamelLoop(s, i + 1, Append(res, ToAsciiUppercase(s[i])), FALSE)
    ELSE CamelLoop(s, i + 1, Append(res, s[i]), prev_is_dash)

\* RuaCased::to_camel_case
ToCamelCase(s) == IF s = <<>> THEN <<>> ELSE CamelLoop(s, 1, <<>>, FALSE)

\* RuaCased::to_pascal_case
ToPascalCase(s) ==
    LET camel == ToCamelCase(s)
    IN IF camel = <<>> THEN <<>>
       ELSE <<ToAsciiUppercase(Head(camel))>> \o Tail(camel)

\* enum RuaCase
RuaCase == {"SnakeCase", "CamelCase", "PascalCase"}

\* RuaCase::convert
RuaCaseConvert(case, s) ==
    IF case = "SnakeCase" THEN ToSnakeCase(s)
    ELSE IF case = "CamelCase" THEN ToCamelCase(s)
    ELSE ToPascalCase(s)

\* RuaCase::check
RuaCaseCheck(case, s) ==
    IF case = "SnakeCase" THEN IsSnakeCase(s)
    ELSE IF case = "CamelCase" THEN IsCamelCase(s)
    ELSE IsPascalCase(s)

\* struct RuaName
RuaName(name, case) == [name |-> name, case |-> case]

\* RuaName::new (the warning it logs does not change what it returns)
RuaNameNew(name, case) == RuaName(name, case)

\* RuaName::check
RuaNameCheck(n) == RuaCaseCheck(n.case, n.name)

\* RuaName::convert
RuaNameConvert(n, case) == RuaNameNew(RuaCaseConvert(case, n.name), case)

\* RuaMod::new
RuaMod(name, ty, root_path, is_public) ==
    [name |-> RuaNameNew(name, "SnakeCase"), ty |-> ty, root_path |-> root_path,
     is_public |-> is_public]

----------------------------------------------------------------------------
(* Conversion results and errors (errors.rs). *)

\* Result::Ok, Result::Err
OkOf(v) == [tag |-> "Ok", val |-> v]
ErrOf(e) == [tag |-> "Err", err |-> e]

\* a message: its words, and the text formatted into it (<<>> when none)
Message(words, arg) == [words |-> words, arg |-> arg]

\* ConversionError::builder
Builder ==
    [path |-> <<>>, start |-> <<>>, end |-> <<>>, source_type |-> <<>>,
     target_type |-> <<>>, message |-> <<>>, err_source |-> <<>>]

\* ConversionError::builder_for_next
\* faulty variant: the builder starts with the fields of the error
BuilderForNextInherit(err) == [err EXCEPT !.err_source = <<err>>]
BuilderForNext(err) == [Builder EXCEPT !.err_source = <<err>>]

\* ConversionErrorBuilder::build
Build(b) ==
    [path |-> b.path, start |-> b.start, end |-> b.end,
     source_type |-> b.source_type, target_type |-> b.target_type,
     message |-> b.message, err_source |-> b.err_source]

\* the setters of ConversionErrorBuilder: path, start, end, span,
\* source_type, target_type, message; each call sets what it is given
Setters == {"path", "start", "end", "span", "source_type", "target_type", "message"}
Set(b, setter) ==
    IF setter = "path" THEN [b EXCEPT !.path = <<"path">>]
    ELSE IF setter = "start" THEN [b EXCEPT !.start = <<"location">>]
    ELSE IF setter = "end" THEN [b EXCEPT !.end = <<"location">>]
    ELSE IF setter = "span"
    THEN [b EXCEPT !.start = <<"span.start()">>, !.end = <<"span.end()">>]
    ELSE IF setter = "source_type" THEN [b EXCEPT !.source_type = <<"source_type">>]
    ELSE IF setter = "target_type" THEN [b EXCEPT !.target_type = <<"target_type">>]
    ELSE [b EXCEPT !.message = <<Message(<<"message">>, <<>>)>>]

\* the builder build leaves behind: take() empties every field
\* faulty variant: build leaves the builder as it was
TakenKept(b) == b
Taken(b) ==
    [path |-> <<>>, start |-> <<>>, end |-> <<>>, source_type |-> <<>>,
     target_type |-> <<>>, message |-> <<>>, err_source |-> <<>>]

\* a builder b used by a sequence of calls, of setters and of build: the
\* errors built so far and the builder at the end
RECURSIVE Use(_, _, _)
Use(b, calls, built) ==
    IF calls = <<>> THEN [tag |-> "Built", built |-> built, builder |-> b]
    ELSE IF Head(calls) = "build"
    THEN Use(Taken(b), Tail(calls), Append(built, Build(b)))
    ELSE Use(Set(b, Head(calls)), Tail(calls), built)

\* the generate_error closures: an error of this level with a message
\* faulty variant: the message is left out
GenerateErrorSilent(source_type, target_type, message) ==
    ErrOf(Build([Builder EXCEPT !.start = <<"span.start()">>,
                                !.end = <<"span.end()">>,
                                !.source_type = <<source_type>>,
                                !.target_type = <<target_type>>]))
GenerateError(source_type, target_type, message) ==
    ErrOf(Build([Builder EXCEPT !.start = <<"span.start()">>,
                                !.end = <<"span.end()">>,
                                !.source_type = <<source_type>>,
                                !.target_type = <<target_type>>,
                                !.message = <<message>>]))

\* the err_mapper / error_mapper closures: the wrapper a level puts around
\* the error of the level below
\* faulty variant: hands the error of the level below on as it is
ErrMapperTransparent(source_type, target_type, err) == err
ErrMapper(source_type, target_type, err) ==
    Build([BuilderForNext(err) EXCEPT !.start = <<"span.start()">>,
                                      !.end = <<"span.end()">>,
                                      !.source_type = <<source_type>>,
                                      !.target_type = <<target_type>>])

\* Result::map_err with such a closure
MapErr(res, source_type, target_type) ==
    IF res.tag = "Err" THEN ErrOf(ErrMapper(source_type, target_type, res.err))
    ELSE res

\* the errors of a chain, the outermost first
RECURSIVE Chain(_)
Chain(err) ==
    IF err.err_source = <<>> THEN <<err>>
    ELSE <<err>> \o Chain(err.err_source[1])

\* the error a chain ends with
Innermost(err) == Chain(err)[Len(Chain(err))]

Tagged(err, source_type, target_type) ==
    /\ err.source_type = <<source_type>>
    /\ err.target_type = <<target_type>>

----------------------------------------------------------------------------
(* Names from identifiers. *)

\* impl TryFrom<&Ident> for RuaName
RuaNameFromIdent(ident) ==
    IF IsSnakeCase(ident) THEN OkOf(RuaName(ident, "SnakeCase"))
    ELSE IF IsCamelCase(ident) THEN OkOf(RuaName(ident, "CamelCase"))
    ELSE IF IsPascalCase(ident) THEN OkOf(RuaName(ident, "PascalCase"))
    ELSE GenerateError("syn::Ident", "RuaName",
            Message(<<"The name of the ident is not a valid case:">>, ident))

\* the strings of the model
Strings == SeqsUpTo(Chars, MaxLen)

\* proc_macro2::Ident: not empty, no digit in front
Idents == {s \in Strings : s # <<>> /\ s[1] \notin Digits}

\* the calls of the name operations
NameInputs ==
    {[op |-> "RuaName::try_from", ident |-> s] : s \in Idents}
    \cup {[op |-> "RuaName::new", name |-> s, case |-> c] :
            s \in Strings, c \in RuaCase}
    \cup {[op |-> "RuaName::convert", self |-> RuaNameNew(s, c), case |-> to] :
            s \in Strings, c \in RuaCase, to \in RuaCase}
    \cup {[op |-> "RuaMod::new", name |-> s] : s \in Strings}
    \cup {[op |-> "RuaName::convert, convert", name |-> s] : s \in Strings}
    \cup {[op |-> "RuaCaseConverter::to_snake_case", name |-> s] : s \in Strings}

\* a conversion is called once, with input, and returns output
Called(op) == input.op = op /\ output = NoOutput
Returns(res) == output' = res /\ UNCHANGED <<input, runVars>>
Done(op) == input.op = op /\ output # NoOutput

\* how many calls a builder gets
MaxCalls == 3

\* the uses of a builder: it comes from builder (from is <<>>) or from
\* builder_for_next of an error (from is <<e>>: an error with every field
\* set, and the wrapper of a conversion around one), and gets setters and
\* builds
BuilderInputs ==
    LET full == Build([Builder EXCEPT !.path = <<"path">>,
                                     !.start = <<"location">>,
                                     !.end = <<"location">>,
                                     !.source_type = <<"source_type">>,
                                     !.target_type = <<"target_type">>,
                                     !.message = <<Message(<<"cause">>, <<>>)>>])
        errs == {full, ErrMapper("syn::Type", "RuaType", full)}
    IN {[op |-> "ConversionErrorBuilder", from |-> f, calls |-> cs] :
            f \in {<<>>} \cup {<<e>> : e \in errs},
            cs \in SeqsUpTo(Setters \cup {"build"}, MaxCalls)}

BuilderUse ==
    /\ Called("ConversionErrorBuilder")
    /\ Returns(Use(IF input.from = <<>> THEN Builder
                   ELSE BuilderForNext(input.from[1]), input.calls, <<>>))

NameTryFrom ==
    /\ Called("RuaName::try_from")
    /\ Returns(RuaNameFromIdent(input.ident))

NameNew ==
    /\ Called("RuaName::new")
    /\ Returns(OkOf(RuaNameNew(input.name, input.case)))

\* a name is converted to camel case and the result to snake case
NameConvertTwice ==
    /\ Called("RuaName::convert, convert")
    /\ Returns(OkOf(RuaNameConvert(
            RuaNameConvert(RuaNameNew(input.name, "SnakeCase"), "CamelCase"),
            "SnakeCase")))

\* the converter of utils.rs and the one of models.rs on the same string
ConverterToSnakeCase ==
    /\ Called("RuaCaseConverter::to_snake_case")
    /\ Returns([tag |-> "Both",
                first |-> RuaCaseConverterToSnakeCase(input.name),
                second |-> ToSnakeCase(input.name)])

NameConvert ==
    /\ Called("RuaName::convert")
    /\ Returns(OkOf(RuaNameConvert(input.self, input.case)))

ModNew ==
    /\ Called("RuaMod::new")
    /\ Returns(OkOf(RuaMod(input.name, FileModule, <<>>, TRUE).name))

\* an identifier in capitals with underscores, as SCREAMING_SNAKE
IsScreamingSnake(s) ==
    /\ IsAsciiUppercase(s[1])
    /\ \A i \in 1..Len(s) : IsAsciiUppercase(s[i]) \/ s[i] = "_"
    /\ \E i \in 1..Len(s) : s[i] = "_"

\* C12: a name is made from an identifier exactly when the identifier is in
\* snake, camel or pascal case, with that case as its tag; an identifier in
\* none of the three, an all-capitals identifier with underscores among
\* them, is refused with a ConversionError.
C12_NameFromIdent ==
    Done("RuaName::try_from") =>
        LET id == input.ident
        IN /\ \A c \in RuaCase :
                (output.tag = "Ok" /\ output.val.case = c) <=> RuaCaseCheck(c, id)
           /\ (\A c \in RuaCase : ~RuaCaseCheck(c, id)) => output.tag = "Err"
           /\ IsScreamingSnake(id) => output.tag = "Err"

\* C13: every RuaName made, by RuaName::new, RuaName::convert, RuaMod::new
\* or from an identifier, has a tag its own check accepts.
C13_TagMatchesClassifier ==
    (output.tag = "Ok" /\ input.op \in {"RuaName::try_from", "RuaName::new",
                                         "RuaName::convert", "RuaMod::new"})
        => RuaNameCheck(output.val)

----------------------------------------------------------------------------
(* Types (models.rs, mod rua_type and the modules of the composite types). *)

\* syn::Type: the categories the conversion refuses by name, and Other for a
\* category added to the non-exhaustive enum later
Unsupported ==
    {"Group", "ImplTrait", "Infer", "Macro", "Never", "Paren", "TraitObject",
     "Verbatim"}
TypeNode(node) == [node |-> node]

\* syn::PathSegment (args: the types among its generic arguments), syn::TypePath
Segment(ident, args) == [ident |-> ident, args |-> args]
TypePath(segments) == [node |-> "Path", segments |-> segments]

\* syn::TypeReference, TypePtr, TypeSlice, TypeArray, TypeTuple, TypeBareFn
TypeReference(mutability, elem) ==
    [node |-> "Reference", mutability |-> mutability, elem |-> elem]
TypePtr(const_token, elem) ==
    [node |-> "Ptr", const_token |-> const_token, elem |-> elem]
TypeSlice(elem) == [node |-> "Slice", elem |-> elem]
TypeArray(elem, len) == [node |-> "Array", elem |-> elem, len |-> len]
TypeTuple(elems) == [node |-> "Tuple", elems |-> elems]
TypeBareFn(inputs, ret) ==
    [node |-> "BareFn", inputs |-> inputs, output |-> ret]

\* syn::ReturnType
ReturnDefault == [ret |-> "Default"]
ReturnOf(ty) == [ret |-> "Type", ty |-> ty]

\* syn::Expr as an array length: an integer literal (usize: what
\* base10_parse::<usize> makes of its digits, <<n>> or <<>> when they do not
\* fit), another literal, a path (the identifiers of its segments) and an
\* expression that is neither a literal nor a path
ExprLitInt(usize) == [expr |-> "Lit", lit |-> "Int", usize |-> usize]
ExprLit(lit) == [expr |-> "Lit", lit |-> lit]
ExprPath(idents) == [expr |-> "Path", idents |-> idents]
ExprOther == [expr |-> "Other"]

\* enum RuaType
Prim(ty) == [ty |-> ty]
Custom(name) == [ty |-> "Custom", name |-> name]
Composite(ty, val) == [ty |-> ty, val |-> val]

\* the identifiers impl TryFrom<&Ident> for RuaType compares with, each with
\* the type of its branch
PrimitiveTable ==
    {<<<<"u", "8">>, "U8">>, <<<<"u", "1", "6">>, "U16">>,
     <<<<"u", "3", "2">>, "U32">>, <<<<"u", "6", "4">>, "U64">>,
     <<<<"u", "1", "2", "8">>, "U128">>, <<<<"u", "s", "i", "z", "e">>, "Usize">>,
     <<<<"i", "8">>, "I8">>, <<<<"i", "1", "6">>, "I16">>,
     <<<<"i", "3", "2">>, "I32">>, <<<<"i", "6", "4">>, "I64">>,
     <<<<"i", "1", "2", "8">>, "I128">>, <<<<"i", "s", "i", "z", "e">>, "Isize">>,
     <<<<"f", "3", "2">>, "F32">>, <<<<"f", "6", "4">>, "F64">>,
     <<<<"b", "o", "o", "l">>, "Bool">>, <<<<"c", "h", "a", "r">>, "Char">>,
     <<<<"C", "h", "a", "r">>, "Char">>, <<<<"s", "t", "r">>, "Str">>,
     <<<<"S", "t", "r", "i", "n", "g">>, "String">>,
     <<<<"u", "n", "i", "t">>, "Unit">>, <<<<"U", "n", "i", "t">>, "Unit">>}

InTable(ident) == \E e \in PrimitiveTable : e[1] = ident

\* impl TryFrom<&Ident> for RuaType, the chain of comparisons: <<the type>>
\* of an identifier it knows, <<>> for any other
PrimitiveOf(ident) ==
    IF ident = <<"u", "8">> THEN <<Prim("U8")>>
    ELSE IF ident = <<"u", "1", "6">> THEN <<Prim("U16")>>
    ELSE IF ident = <<"u", "3", "2">> THEN <<Prim("U32")>>
    ELSE IF ident = <<"u", "6", "4">> THEN <<Prim("U64")>>
    ELSE IF ident = <<"u", "1", "2", "8">> THEN <<Prim("U128")>>
    ELSE IF ident = <<"u", "s", "i", "z", "e">> THEN <<Prim("Usize")>>
    ELSE IF ident = <<"i", "8">> THEN <<Prim("I8")>>
    ELSE IF ident = <<"i", "1", "6">> THEN <<Prim("I16")>>
    ELSE IF ident = <<"i", "3", "2">> THEN <<Prim("I32")>>
    ELSE IF ident = <<"i", "6", "4">> THEN <<Prim("I64")>>
    ELSE IF ident = <<"i", "1", "2", "8">> THEN <<Prim("I128")>>
    ELSE IF ident = <<"i", "s", "i", "z", "e">> THEN <<Prim("Isize")>>
    ELSE IF ident = <<"f", "3", "2">> THEN <<Prim("F32")>>
    ELSE IF ident = <<"f", "6", "4">> THEN <<Prim("F64")>>
    ELSE IF ident = <<"b", "o", "o", "l">> THEN <<Prim("Bool")>>
    ELSE IF ident = <<"c", "h", "a", "r">> \/ ident = <<"C", "h", "a", "r">> THEN <<Prim("Char")>>
    ELSE IF ident = <<"s", "t", "r">> THEN <<Prim("Str")>>
    ELSE IF ident = <<"S", "t", "r", "i", "n", "g">> THEN <<Prim("String")>>
    ELSE IF ident = <<"u", "n", "i", "t">> \/ ident = <<"U", "n", "i", "t">> \/ ident = <<"(", ")">>
    THEN <<Prim("Unit")>>
    ELSE <<>>

\* impl TryFrom<&Ident> for RuaType
\* faulty variant: tags every custom name as pascal case
RuaTypeFromIdentPascal(ident) ==
    IF PrimitiveOf(ident) # <<>> THEN OkOf(PrimitiveOf(ident)[1])
    ELSE OkOf(Custom(RuaName(ident, "PascalCase")))
RuaTypeFromIdent(ident) ==
    IF PrimitiveOf(ident) # <<>> THEN OkOf(PrimitiveOf(ident)[1])
    ELSE LET name == MapErr(RuaNameFromIdent(ident), "syn::Ident", "RuaType")
         IN IF name.tag = "Err" THEN name ELSE OkOf(Custom(name.val))

\* impl TryFrom<&TypePath> for RuaType
\* faulty variant: looks at the first segment
RuaTypeFromTypePathFirst(value) ==
    IF value.segments = <<>>
    THEN ErrOf(ErrMapper("syn::TypePath", "RuaType",
            Build([Builder EXCEPT !.message = <<Message(<<"empty", "path">>, <<>>)>>])))
    ELSE MapErr(RuaTypeFromIdent(value.segments[1].ident),
                "syn::TypePath", "RuaType")
RuaTypeFromTypePath(value) ==
    IF value.segments = <<>>
    THEN ErrOf(ErrMapper("syn::TypePath", "RuaType",
            Build([Builder EXCEPT !.message = <<Message(<<"empty", "path">>, <<>>)>>])))
    ELSE MapErr(RuaTypeFromIdent(value.segments[Len(value.segments)].ident),
                "syn::TypePath", "RuaType")

\* Iterator::collect::<Result<Vec<_>, _>>: the first error, or all the values
\* faulty variant: leaves out what failed
CollectOks(rs) ==
    LET RECURSIVE Oks(_)
        Oks(s) == IF s = <<>> THEN <<>>
                  ELSE (IF Head(s).tag = "Ok" THEN <<Head(s).val>> ELSE <<>>)
                       \o Oks(Tail(s))
    IN OkOf(Oks(rs))
Collect(rs) ==
    IF \E i \in 1..Len(rs) : rs[i].tag = "Err"
    THEN rs[CHOOSE i \in 1..Len(rs) :
                /\ rs[i].tag = "Err"
                /\ \A j \in 1..(i - 1) : rs[j].tag = "Ok"]
    ELSE OkOf([i \in 1..Len(rs) |-> rs[i].val])

\* the conversion of a length, were a path of any length taken by its first
\* segment
RuaArrayLenFromExprAnyPath(value) ==
    IF value.expr = "Lit"
    THEN IF value.lit = "Int"
         THEN IF value.usize = <<>>
              THEN GenerateError("syn::Expr", "RuaArrayLen",
                        Message(<<"failed", "to", "parse", "usize">>, <<>>))
              ELSE OkOf([len |-> "Num", n |-> value.usize[1]])
         ELSE GenerateError("syn::Expr", "RuaArrayLen",
                    Message(<<"unsupported", "literal", "type">>, <<>>))
    ELSE IF value.expr = "Path"
    THEN IF Len(value.idents) = 0
         THEN GenerateError("syn::Expr", "RuaArrayLen",
                    Message(<<"unsupported", "path", "segments", "length">>, <<>>))
         ELSE OkOf([len |-> "Const", name |-> value.idents[1]])
    ELSE GenerateError("syn::Expr", "RuaArrayLen",
                Message(<<"unsupported", "expression", "type">>, <<>>))

\* impl TryFrom<&Expr> for RuaArrayLen
RuaArrayLenFromExpr(value) ==
    IF value.expr = "Lit"
    THEN IF value.lit = "Int"
         THEN IF value.usize = <<>>
              THEN GenerateError("syn::Expr", "RuaArrayLen",
                        Message(<<"failed", "to", "parse", "usize">>, <<>>))
              ELSE OkOf([len |-> "Num", n |-> value.usize[1]])
         ELSE GenerateError("syn::Expr", "RuaArrayLen",
                    Message(<<"unsupported", "literal", "type">>, <<>>))
    ELSE IF value.expr = "Path"
    THEN IF Len(value.idents) # 1
         THEN GenerateError("syn::Expr", "RuaArrayLen",
                    Message(<<"unsupported", "path", "segments", "length">>, <<>>))
         ELSE OkOf([len |-> "Const", name |-> value.idents[1]])
    ELSE GenerateError("syn::Expr", "RuaArrayLen",
                Message(<<"unsupported", "expression", "type">>, <<>>))

\* the message of generate_error for a category
UnsupportedMessage(node) ==
    IF node = "Infer"
    THEN Message(<<"unsupported", "type", "Infer",
                   ", please specify the type explicitly">>, <<>>)
    ELSE IF node = "Verbatim"
    THEN Message(<<"unsupported", "type", "Verbatim", ":">>, <<"tokens">>)
    ELSE IF node \in Unsupported
    THEN Message(<<"unsupported", "type", node>>, <<>>)
    ELSE Message(<<"unsupported", "type">>, <<>>)

RECURSIVE RuaTypeFromType(_)

\* impl TryFrom<&ReturnType> for RuaType
\* faulty variant: makes the empty tuple of a return type that is not written
RuaTypeFromReturnTypeTuple(value) ==
    IF value.ret = "Default" THEN OkOf(Composite("Tuple", [tys |-> <<>>]))
    ELSE MapErr(RuaTypeFromType(value.ty), "syn::ReturnType", "RuaType")
RuaTypeFromReturnType(value) ==
    IF value.ret = "Default" THEN OkOf(Prim("Unit"))
    ELSE MapErr(RuaTypeFromType(value.ty), "syn::ReturnType", "RuaType")

\* impl TryFrom<&BareFnArg> for RuaType
RuaTypeFromBareFnArg(ty) ==
    MapErr(RuaTypeFromType(ty), "syn::BareFnArg", "RuaType")

\* impl TryFrom<&TypeSlice> for RuaSlice
RuaSliceFromTypeSlice(value) ==
    LET ty == MapErr(RuaTypeFromType(value.elem), "syn::TypeSlice", "RuaSlice")
    IN IF ty.tag = "Err" THEN ty ELSE OkOf([ty |-> ty.val])

\* impl TryFrom<&TypeArray> for RuaArray
RuaArrayFromTypeArray(value) ==
    LET ty == MapErr(RuaTypeFromType(value.elem), "syn::TypeArray", "RuaArray")
        len == MapErr(RuaArrayLenFromExpr(value.len), "syn::TypeArray", "RuaArray")
    IN IF ty.tag = "Err" THEN ty
       ELSE IF len.tag = "Err" THEN len
       ELSE OkOf([ty |-> ty.val, len |-> len.val])

\* impl TryFrom<&TypeTuple> for RuaTuple
RuaTupleFromTypeTuple(value) ==
    LET tys == Collect([i \in 1..Len(value.elems) |->
                    MapErr(RuaTypeFromType(value.elems[i]),
                           "syn::TypeTuple", "RuaTuple")])
    IN IF tys.tag = "Err" THEN tys ELSE OkOf([tys |-> tys.val])

\* impl TryFrom<&TypeBareFn> for RuaBareFn
RuaBareFnFromTypeBareFn(value) ==
    LET params == Collect([i \in 1..Len(value.inputs) |->
                    MapErr(RuaTypeFromBareFnArg(value.inputs[i]),
                           "syn::TypeBareFn", "RuaFn")])
        ret == MapErr(RuaTypeFromReturnType(value.output),
                      "syn::TypeBareFn", "RuaFn")
    IN IF params.tag = "Err" THEN params
       ELSE IF ret.tag = "Err" THEN ret
       ELSE OkOf([params |-> params.val, ret |-> ret.val])

\* impl TryFrom<&TypePtr> for RuaPointer
RuaPointerFromTypePtr(value) ==
    LET ty == MapErr(RuaTypeFromType(value.elem), "syn::TypePtr", "RuaPointer")
    IN IF ty.tag = "Err" THEN ty
       ELSE OkOf([is_const |-> value.const_token, ty |-> ty.val])

\* impl TryFrom<&TypeReference> for RuaReference
RuaReferenceFromTypeReference(value) ==
    LET ty == MapErr(RuaTypeFromType(value.elem),
                     "syn::TypeReference", "RuaReference")
    IN IF ty.tag = "Err" THEN ty
       ELSE OkOf([is_mut |-> value.mutability, ty |-> ty.val])

\* .map_err(err_mapper).map(Self::Array) and the like in the match below
Variant(res, ty) ==
    LET mapped == MapErr(res, "syn::Type", "RuaType")
    IN IF mapped.tag = "Err" THEN mapped ELSE OkOf(Composite(ty, mapped.val))

\* impl TryFrom<&Type> for RuaType
RuaTypeFromType(value) ==
    IF value.node = "Array" THEN Variant(RuaArrayFromTypeArray(value), "Array")
    ELSE IF value.node = "BareFn"
    THEN LET fn == MapErr(RuaBareFnFromTypeBareFn(value), "syn::Type", "RuaType")
         IN IF fn.tag = "Err" THEN fn
            ELSE OkOf(Composite("Fn", Composite("Bare", fn.val)))
    ELSE IF value.node = "Path"
    THEN MapErr(RuaTypeFromTypePath(value), "syn::Type", "RuaType")
    ELSE IF value.node = "Ptr" THEN Variant(RuaPointerFromTypePtr(value), "Pointer")
    ELSE IF value.node = "Reference"
    THEN Variant(RuaReferenceFromTypeReference(value), "Reference")
    ELSE IF value.node = "Slice" THEN Variant(RuaSliceFromTypeSlice(value), "Slice")
    ELSE IF value.node = "Tuple" THEN Variant(RuaTupleFromTypeTuple(value), "Tuple")
    ELSE GenerateError("syn::Type", "RuaType", UnsupportedMessage(value.node))

----------------------------------------------------------------------------
(* The types handed to the conversions. *)

\* how deep a type is nested
MaxDepth == 2

\* the types nested at most d deep.  Those that contain no other type: a
\* node of each category without a conversion, the empty tuple, the path
\* without segments, and paths of an identifier the conversion knows (i32,
\* str), a custom one (A) and one in none of the three cases (_A).  A type t
\* is nested as the element of a reference, pointer, slice or array (with a
\* length that converts and one that does not), as an element of a tuple
\* (alone, and before an element that fails), as the parameter or the
\* return type of a bare function, and as a generic argument of a path.
RECURSIVE TypesUpTo(_)
TypesUpTo(d) ==
    IF d = 0
    THEN {TypeNode(n) : n \in Unsupported \cup {"Other"}}
         \cup {TypeTuple(<<>>), TypePath(<<>>)}
         \cup {TypePath(<<Segment(i, <<>>)>>) :
                    i \in {<<"i", "3", "2">>, <<"s", "t", "r">>, <<"A">>, <<"_", "A">>}}
    ELSE LET T == TypesUpTo(d - 1)
         IN T \cup {TypeReference(m, t) : m \in BOOLEAN, t \in T}
              \cup {TypePtr(TRUE, t) : t \in T}
              \cup {TypeSlice(t) : t \in T}
              \cup {TypeArray(t, l) : t \in T, l \in {ExprLitInt(<<3>>), ExprOther}}
              \cup {TypeTuple(<<t>>) : t \in T}
              \cup {TypeTuple(<<t, TypeNode("Never")>>) : t \in T}
              \cup {TypeBareFn(<<t>>, ReturnDefault) : t \in T}
              \cup {TypeBareFn(<<>>, ReturnOf(t)) : t \in T}
              \cup {TypePath(<<Segment(<<"A">>, <<t>>)>>) : t \in T}

\* the segments in front of the last one
Leads == {<<>>, <<Segment(<<"a">>, <<>>)>>,
          <<Segment(<<"i", "3", "2">>, <<>>), Segment(<<"B">>, <<>>)>>}

\* paths without generic arguments: every identifier of the model and every
\* identifier the conversion knows, behind each lead
PathTo(lead, ident) == TypePath(lead \o <<Segment(ident, <<>>)>>)
PathIdents == Idents \cup {e[1] : e \in PrimitiveTable}

LastIdent(path) == path.segments[Len(path.segments)].ident

\* the array lengths: integer literals that fit and one that does not, a
\* string literal, paths of no, one, two and three segments, and another
\* expression; the arrays: each length with an element that converts and
\* two that do not
TypeInputs ==
    LET N == <<"A">>
        exprs == {ExprLitInt(<<0>>), ExprLitInt(<<3>>), ExprLitInt(<<>>),
                  ExprLit("Str"), ExprLit("Float"), ExprOther,
                  ExprPath(<<>>), ExprPath(<<N>>), ExprPath(<<<<"a">>>>),
                  ExprPath(<<<<"a">>, N>>), ExprPath(<<<<"a">>, <<"b">>, N>>)}
        elems == {TypePath(<<Segment(<<"i", "3", "2">>, <<>>)>>),
                  TypePath(<<Segment(<<"_", "A">>, <<>>)>>),
                  TypeNode("Never")}
    IN
    {[op |-> "RuaType::try_from(Type)", ty |-> t] : t \in TypesUpTo(MaxDepth)}
    \cup {[op |-> "RuaArrayLen::try_from", expr |-> e] : e \in exprs}
    \cup {[op |-> "RuaArray::try_from", ty |-> TypeArray(t, e)] :
            t \in elems, e \in exprs}
    \cup {[op |-> "RuaType::try_from(TypePath)", ty |-> PathTo(lead, i)] :
            lead \in Leads, i \in PathIdents}
    \cup {[op |-> "RuaType::try_from(TypePath)", ty |-> TypePath(<<>>)]}
    \cup {[op |-> "RuaType::try_from(TypePath) twice",
            ty |-> PathTo(lead, i), other |-> PathTo(lead2, i)] :
            lead \in Leads, lead2 \in Leads, i \in PathIdents}

TypeTryFrom ==
    /\ Called("RuaType::try_from(Type)")
    /\ Returns(RuaTypeFromType(input.ty))

TypePathTryFrom ==
    /\ Called("RuaType::try_from(TypePath)")
    /\ Returns(RuaTypeFromTypePath(input.ty))

ArrayLenTryFrom ==
    /\ Called("RuaArrayLen::try_from")
    /\ Returns(RuaArrayLenFromExpr(input.expr))

ArrayTryFrom ==
    /\ Called("RuaArray::try_from")
    /\ Returns(RuaArrayFromTypeArray(input.ty))

\* two paths are converted, one after the other
TypePathTryFromTwice ==
    /\ Called("RuaType::try_from(TypePath) twice")
    /\ Returns([tag |-> "Both", first |-> RuaTypeFromTypePath(input.ty),
                second |-> RuaTypeFromTypePath(input.other)])

----------------------------------------------------------------------------
(* Properties of the type conversions. *)

Range(s) == {s[i] : i \in 1..Len(s)}

\* the types a type holds in the places the conversion converts
Elements(t) ==
    IF t.node \in {"Reference", "Ptr", "Slice", "Array"} THEN {t.elem}
    ELSE IF t.node = "Tuple" THEN Range(t.elems)
    ELSE IF t.node = "BareFn"
    THEN Range(t.inputs) \cup (IF t.output.ret = "Type" THEN {t.output.ty} ELSE {})
    ELSE {}

\* the types among the generic arguments of a path
Arguments(t) ==
    IF t.node = "Path"
    THEN UNION {Range(t.segments[i].args) : i \in 1..Len(t.segments)}
    ELSE {}

\* a type and the types nested in it, without and with generic arguments
RECURSIVE Converted(_)
Converted(t) == {t} \cup UNION {Converted(c) : c \in Elements(t)}
RECURSIVE Inside(_)
Inside(t) == {t} \cup UNION {Inside(c) : c \in Elements(t) \cup Arguments(t)}

\* the message of an error names a category
Names(err, node) ==
    /\ err.message # <<>>
    /\ \E i \in 1..Len(err.message[1].words) : err.message[1].words[i] = node

HasCase(ident) == \E c \in RuaCase : RuaCaseCheck(c, ident)

\* a path with segments was converted, its last identifier is not in the table
CustomPathDone ==
    /\ Done("RuaType::try_from(TypePath)")
    /\ input.ty.segments # <<>>
    /\ ~InTable(LastIdent(input.ty))

\* C14 as claimed: a path whose last identifier is not in the primitive
\* table always converts, to Custom(name) with that identifier, whatever the
\* case of the identifier.
C14_CustomNeverFails ==
    CustomPathDone =>
        /\ output.tag = "Ok"
        /\ output.val.ty = "Custom"
        /\ output.val.name.name = LastIdent(input.ty)

\* C14 amended: a path whose last identifier is not in the primitive table
\* converts to Custom(name), with that identifier and its case, when the
\* identifier is in snake, camel or pascal case; when it is in none of them
\* the conversion fails and the chain ends with the error of the name
\* (syn::Ident -> RuaName).
C14_CustomForCasedIdent ==
    CustomPathDone =>
        LET id == LastIdent(input.ty)
        IN IF HasCase(id)
           THEN /\ output.tag = "Ok"
                /\ output.val.ty = "Custom"
                /\ output.val.name.name = id
                /\ RuaCaseCheck(output.val.name.case, id)
           ELSE /\ output.tag = "Err"
                /\ Tagged(Innermost(output.err), "syn::Ident", "RuaName")

\* C14 happens: a path ending in a camel case identifier became Custom
C14_Witness ==
    /\ CustomPathDone
    /\ Len(input.ty.segments) > 1
    /\ output.tag = "Ok"
    /\ output.val = Custom(RuaName(LastIdent(input.ty), "CamelCase"))

\* the unsupported nodes of the converted type: anywhere, and where the
\* conversion goes
UnsupportedInside == {n \in Inside(input.ty) : n.node \in Unsupported}
UnsupportedConverted == {n \in Converted(input.ty) : n.node \in Unsupported}

\* the nodes that fail for another reason: a category the conversion does
\* not know, a path that does not convert, an array length that does not
OtherFailures ==
    {n \in Converted(input.ty) :
        \/ n.node = "Other"
        \/ n.node = "Path" /\ RuaTypeFromTypePath(n).tag = "Err"
        \/ n.node = "Array" /\ RuaArrayLenFromExpr(n.len).tag = "Err"}

\* C15 as claimed: a type with a node of an unsupported category in it, at
\* any depth, does not convert, and the innermost error names the category.
C15_UnsupportedAlwaysFails ==
    (Done("RuaType::try_from(Type)") /\ UnsupportedInside # {}) =>
        /\ output.tag = "Err"
        /\ \E n \in UnsupportedInside : Names(Innermost(output.err), n.node)

\* C15 amended: a node of an unsupported category does not convert, and its
\* error names the category; a type that holds such a node at any depth as
\* an element of arrays, slices, pointers, references, tuples or bare
\* functions does not convert either (the generic arguments of a path are
\* not converted); the innermost error names the category of such a node
\* when nothing else in the type fails.
C15_UnsupportedFailsWhereConverted ==
    Done("RuaType::try_from(Type)") =>
        /\ input.ty.node \in Unsupported =>
                /\ output.tag = "Err"
                /\ Len(Chain(output.err)) = 1
                /\ Tagged(output.err, "syn::Type", "RuaType")
                /\ Names(output.err, input.ty.node)
        /\ UnsupportedConverted # {} => output.tag = "Err"
        /\ (UnsupportedConverted # {} /\ OtherFailures = {}) =>
                \E n \in UnsupportedConverted :
                    Names(Innermost(output.err), n.node)

\* C15 happens: the never type inside a slice inside a reference was refused
C15_Witness ==
    /\ Done("RuaType::try_from(Type)")
    /\ input.ty.node = "Reference"
    /\ input.ty.elem.node = "Slice"
    /\ input.ty.elem.elem.node = "Never"
    /\ output.tag = "Err"
    /\ Names(Innermost(output.err), "Never")

LenDone == Done("RuaArrayLen::try_from")
ArrayDone == Done("RuaArray::try_from")

\* the expression is one the claim gives a length to
LitIntThatFits(e) == e.expr = "Lit" /\ e.lit = "Int" /\ e.usize # <<>>
OneSegmentPath(e) == e.expr = "Path" /\ Len(e.idents) = 1

\* C21: the conversion of an array length gives Num(n) for an integer
\* literal whose digits parse as a usize n, Const(name) for a path of one
\* segment with identifier name, and an error tagged (syn::Expr ->
\* RuaArrayLen) for everything else; when the length does not convert the
\* array does not, and when its element converts the chain is the wrapper of
\* the array around the error of the length.
C21_ArrayLen ==
    /\ LenDone =>
        LET e == input.expr
        IN IF LitIntThatFits(e)
           THEN output = OkOf([len |-> "Num", n |-> e.usize[1]])
           ELSE IF OneSegmentPath(e)
           THEN output = OkOf([len |-> "Const", name |-> e.idents[1]])
           ELSE /\ output.tag = "Err"
                /\ Tagged(output.err, "syn::Expr", "RuaArrayLen")
                /\ Len(Chain(output.err)) = 1
    /\ ArrayDone =>
        LET len == RuaArrayLenFromExpr(input.ty.len)
            elem == RuaTypeFromType(input.ty.elem)
        IN /\ (LitIntThatFits(input.ty.len) \/ OneSegmentPath(input.ty.len))
                <=> len.tag = "Ok"
           /\ len.tag = "Err" => output.tag = "Err"
           /\ (len.tag = "Err" /\ elem.tag = "Ok") =>
                /\ Tagged(output.err, "syn::TypeArray", "RuaArray")
                /\ output.err.err_source = <<len.err>>
           /\ (len.tag = "Ok" /\ elem.tag = "Ok") =>
                output = OkOf([ty |-> elem.val, len |-> len.val])

\* C21 happens: [i32; a::A] was refused for the length of its path
C21_Witness ==
    /\ ArrayDone
    /\ input.ty.len.expr = "Path"
    /\ Len(input.ty.len.idents) = 2
    /\ RuaTypeFromType(input.ty.elem).tag = "Ok"
    /\ output.tag = "Err"
    /\ Names(Innermost(output.err), "segments")

----------------------------------------------------------------------------
(* Variables, structs and functions (models.rs, mod rua_var, rua_struct,   *)
(* rua_fn).                                                                *)

\* syn::Field: ident is <<the identifier>> or <<>>
Field(ident, ty) == [ident |-> ident, ty |-> ty]

\* syn::ItemStruct: kind is the variant of its syn::Fields ("Named",
\* "Unnamed", "Unit"), fields the fields of that variant
ItemStruct(ident, kind, fields) ==
    [ident |-> ident, kind |-> kind, fields |-> fields]

\* syn::FnArg: FnArg::Receiver, and FnArg::Typed with the syn::PatType in it;
\* pat is <<the identifier>> of a Pat::Ident or <<>> for another pattern
Receiver == [arg |-> "Receiver"]
Typed(pat, ty) == [arg |-> "Typed", pat |-> pat, ty |-> ty]

\* syn::ItemFn
ItemFn(ident, inputs, ret) == [ident |-> ident, inputs |-> inputs, output |-> ret]

\* impl TryFrom<&Field> for RuaVar
RuaVarFromField(value) ==
    IF value.ident = <<>>
    THEN GenerateError("syn::Field", "RuaVar",
            Message(<<"field", "name", "is", "required">>, <<>>))
    ELSE LET var_name == MapErr(RuaNameFromIdent(value.ident[1]),
                                "syn::Field", "RuaVar")
             var_ty == MapErr(RuaTypeFromType(value.ty), "syn::Field", "RuaVar")
         IN IF var_name.tag = "Err" THEN var_name
            ELSE IF var_ty.tag = "Err" THEN var_ty
            ELSE OkOf([name |-> var_name.val, ty |-> var_ty.val])

\* impl TryFrom<&PatType> for RuaVar
RuaVarFromPatType(value) ==
    IF value.pat = <<>>
    THEN GenerateError("syn::PatType", "RuaVar",
            Message(<<"unsupported", "pattern", "type,", "only", "Ident", "is",
                      "supported">>, <<>>))
    ELSE LET var_name == MapErr(RuaNameFromIdent(value.pat[1]),
                                "syn::PatType", "RuaVar")
             var_ty == MapErr(RuaTypeFromType(value.ty), "syn::PatType", "RuaVar")
         IN IF var_name.tag = "Err" THEN var_name
            ELSE IF var_ty.tag = "Err" THEN var_ty
            ELSE OkOf([name |-> var_name.val, ty |-> var_ty.val])

\* impl TryFrom<&FnArg> for RuaVar
\* faulty variant: makes a variable named self of a receiver
RuaVarFromFnArgSelf(value) ==
    IF value.arg = "Receiver"
    THEN OkOf([name |-> RuaName(<<"s", "e", "l", "f">>, "SnakeCase"),
               ty |-> Custom(RuaName(<<"S", "e", "l", "f">>, "PascalCase"))])
    ELSE MapErr(RuaVarFromPatType(value), "syn::FnArg", "RuaVar")
RuaVarFromFnArg(value) ==
    IF value.arg = "Receiver"
    THEN GenerateError("syn::FnArg", "RuaVar",
            Message(<<"receiver", "is", "not", "supported">>, <<>>))
    ELSE MapErr(RuaVarFromPatType(value), "syn::FnArg", "RuaVar")

\* convert_named_fields and convert_unnamed_fields; error_mapper is the
\* closure of the caller, given by its two tags
ConvertNamedFields(fields, source_type, target_type) ==
    Collect([i \in 1..Len(fields) |->
        MapErr(RuaVarFromField(fields[i]), source_type, target_type)])

ConvertUnnamedFields(fields, source_type, target_type) ==
    Collect([i \in 1..Len(fields) |->
        MapErr(RuaTypeFromType(fields[i].ty), source_type, target_type)])

\* convert_fields
ConvertFields(ident, kind, fields, source_type, target_type) ==
    LET name == MapErr(RuaNameFromIdent(ident), source_type, target_type)
        named == ConvertNamedFields(fields, source_type, target_type)
        tys == ConvertUnnamedFields(fields, source_type, target_type)
    IN IF kind = "Named"
       THEN IF named.tag = "Err" THEN named
            ELSE IF name.tag = "Err" THEN name
            ELSE OkOf(Composite("Named", [name |-> name.val, fields |-> named.val]))
       ELSE IF kind = "Unnamed"
       THEN IF tys.tag = "Err" THEN tys
            ELSE IF name.tag = "Err" THEN name
            ELSE OkOf(Composite("Tuple", [name |-> name.val, tys |-> tys.val]))
       ELSE IF name.tag = "Err" THEN name
            ELSE OkOf(Composite("Unit", [name |-> name.val]))

\* impl TryFrom<&ItemStruct> for RuaStruct
RuaStructFromItemStruct(value) ==
    ConvertFields(value.ident, value.kind, value.fields,
                  "syn::ItemStruct", "RuaStruct")

\* impl TryFrom<&ItemFn> for RuaSigFn
RuaSigFnFromItemFn(value) ==
    LET params == Collect([i \in 1..Len(value.inputs) |->
                    MapErr(RuaVarFromFnArg(value.inputs[i]), "syn::ItemFn", "RuaFn")])
        ret == MapErr(RuaTypeFromReturnType(value.output), "syn::ItemFn", "RuaFn")
        name == MapErr(RuaNameFromIdent(value.ident), "syn::ItemFn", "RuaFn")
    IN IF params.tag = "Err" THEN params
       ELSE IF ret.tag = "Err" THEN ret
       ELSE IF name.tag = "Err" THEN name
       ELSE OkOf([name |-> name.val, params |-> params.val, ret |-> ret.val])

\* syn::ItemEnum; a variant has an identifier and fields, as a struct has
ItemEnum(ident, variants) == [ident |-> ident, variants |-> variants]

\* impl TryFrom<&Variant> for RuaStruct
RuaStructFromVariant(value) ==
    ConvertFields(value.ident, value.kind, value.fields,
                  "syn::Variant", "RuaStruct")

\* impl TryFrom<ItemEnum> for RuaEnum
RuaEnumFromItemEnum(value) ==
    LET variants == Collect([i \in 1..Len(value.variants) |->
                        MapErr(RuaStructFromVariant(value.variants[i]),
                               "syn::ItemEnum", "RuaEnum")])
        name == MapErr(RuaNameFromIdent(value.ident), "syn::ItemEnum", "RuaEnum")
    IN IF variants.tag = "Err" THEN variants
       ELSE IF name.tag = "Err" THEN name
       ELSE OkOf([name |-> name.val, variants |-> variants.val])

\* how many fields a struct, how many parameters a function and how many
\* variants an enum has
MaxFields == 2

\* the structs and functions handed to the conversions.  Their types: one
\* that converts (i32), a reference (&str), one of a category without a
\* conversion (!), a path of an identifier in none of the cases (_A), an
\* array with a length that does not convert.  Their identifiers: one in a
\* case and one in none.  A field has a name or none, a parameter is a
\* receiver, or typed with an identifier or another pattern; a receiver is
\* the first parameter, the one place where a function has one.  The
\* variants of an enum: without fields, with an identifier in a case and in
\* none, and with one unnamed field whose type converts or does not.
ItemInputs ==
    LET i32 == TypePath(<<Segment(<<"i", "3", "2">>, <<>>)>>)
        str == TypeReference(FALSE, TypePath(<<Segment(<<"s", "t", "r">>, <<>>)>>))
        never == TypeNode("Never")
        uncased == TypePath(<<Segment(<<"_", "A">>, <<>>)>>)
        array == TypeArray(i32, ExprOther)
        fields == {Field(id, ty) : id \in {<<>>, <<<<"a">>>>, <<<<"_", "A">>>>},
                                   ty \in {i32, str, never, uncased, array}}
        args == {Receiver} \cup {Typed(pat, ty) :
                                    pat \in {<<>>, <<<<"a">>>>, <<<<"_", "A">>>>},
                                    ty \in {i32, str, never}}
        rets == {ReturnDefault, ReturnOf(i32), ReturnOf(never)}
        variants == {ItemStruct(<<"A">>, "Unit", <<>>),
                     ItemStruct(<<"_", "A">>, "Unit", <<>>),
                     ItemStruct(<<"B">>, "Unnamed", <<Field(<<>>, i32)>>),
                     ItemStruct(<<"B">>, "Unnamed", <<Field(<<>>, never)>>)}
    IN {[op |-> "RuaStruct::try_from", item |-> ItemStruct(id, kind, fs)] :
            id \in {<<"A">>, <<"_", "A">>}, kind \in {"Named", "Unnamed"},
            fs \in SeqsUpTo(fields, MaxFields)}
       \cup {[op |-> "RuaStruct::try_from", item |-> ItemStruct(id, "Unit", <<>>)] :
            id \in {<<"A">>, <<"_", "A">>}}
       \cup {[op |-> "RuaSigFn::try_from", item |-> ItemFn(id, as, ret)] :
            id \in {<<"a">>, <<"_", "A">>},
            as \in {s \in SeqsUpTo(args, MaxFields) :
                        \A i \in 2..Len(s) : s[i] # Receiver},
            ret \in rets}
       \cup {[op |-> "RuaEnum::try_from", item |-> ItemEnum(id, vs)] :
            id \in {<<"A">>, <<"_", "A">>},
            vs \in SeqsUpTo(variants, MaxFields)}

StructTryFrom ==
    /\ Called("RuaStruct::try_from")
    /\ Returns(RuaStructFromItemStruct(input.item))

SigFnTryFrom ==
    /\ Called("RuaSigFn::try_from")
    /\ Returns(RuaSigFnFromItemFn(input.item))

EnumTryFrom ==
    /\ Called("RuaEnum::try_from")
    /\ Returns(RuaEnumFromItemEnum(input.item))

----------------------------------------------------------------------------
(* The conversions, each called once on one of its arguments. *)

\* the resolver is not running
Idle ==
    /\ manifest = [status |-> "ok", package |-> <<>>, workspace |-> <<>>]
    /\ disk = <<>>
    /\ modules = <<>>
    /\ pc = "idle"
    /\ cur = <<>>
    /\ curPath = <<>>
    /\ items = <<>>
    /\ idx = 1
    /\ result = None
    /\ pushedLog = <<>>
    /\ popped = <<>>
    /\ reads = <<>>
    /\ asked = <<>>
    /\ emitted = <<>>

ConvInit ==
    /\ Idle
    /\ input \in BuilderInputs \cup NameInputs \cup TypeInputs \cup ItemInputs
    /\ output = NoOutput

ConvNext ==
    \/ BuilderUse
    \/ NameTryFrom
    \/ NameNew
    \/ NameConvert
    \/ NameConvertTwice
    \/ ConverterToSnakeCase
    \/ ModNew
    \/ TypeTryFrom
    \/ TypePathTryFrom
    \/ TypePathTryFromTwice
    \/ ArrayLenTryFrom
    \/ ArrayTryFrom
    \/ StructTryFrom
    \/ SigFnTryFrom
    \/ EnumTryFrom

ConvSpec == ConvInit /\ [][ConvNext]_vars

----------------------------------------------------------------------------
(* Properties of the struct and function conversions. *)

\* field k of the converted struct is the one the conversion stops at, and it
\* stops at its type: the fields before it convert, its name (when the
\* fields are named) converts, its type does not
FailsAtTypeOf(k) ==
    LET item == input.item
        Converts(f) == IF item.kind = "Named" THEN RuaVarFromField(f).tag = "Ok"
                       ELSE RuaTypeFromType(f.ty).tag = "Ok"
    IN /\ Done("RuaStruct::try_from")
       /\ item.kind \in {"Named", "Unnamed"}
       /\ k \in 1..Len(item.fields)
       /\ \A j \in 1..(k - 1) : Converts(item.fields[j])
       /\ item.kind = "Named" =>
            /\ item.fields[k].ident # <<>>
            /\ RuaNameFromIdent(item.fields[k].ident[1]).tag = "Ok"
       /\ RuaTypeFromType(item.fields[k].ty).tag = "Err"

\* the chain has one error per conversion level entered: the struct, the
\* field when the fields are named, then the chain the conversion of the
\* type of field k returned, as it was
OneWrapperPerLevel(k) ==
    LET te == RuaTypeFromType(input.item.fields[k].ty).err
        chain == Chain(output.err)
        levels == IF input.item.kind = "Named" THEN 2 ELSE 1
    IN /\ Len(chain) = levels + Len(Chain(te))
       /\ Tagged(chain[1], "syn::ItemStruct", "RuaStruct")
       /\ levels = 2 => Tagged(chain[2], "syn::Field", "RuaVar")
       /\ chain[levels + 1] = te
       /\ \A i \in 1..levels : chain[i].err_source = <<chain[i + 1]>>

\* C16 as claimed: when a struct does not convert because the type of a
\* field does not, the error returned is tagged (syn::ItemStruct ->
\* RuaStruct), the chain ends with an error tagged (syn::Type -> RuaType),
\* and every level adds one wrapper around the error below, unchanged.
C16_ChainEndsAtType ==
    \A k \in 1..MaxFields + 1 :
        FailsAtTypeOf(k) =>
            /\ output.tag = "Err"
            /\ Tagged(output.err, "syn::ItemStruct", "RuaStruct")
            /\ Tagged(Innermost(output.err), "syn::Type", "RuaType")
            /\ OneWrapperPerLevel(k)

\* C16 amended: when a struct does not convert because the type of a field
\* does not, the error returned is tagged (syn::ItemStruct -> RuaStruct),
\* every level adds one wrapper around the error below, unchanged, and below
\* the wrappers of the struct and the field comes the error of the type,
\* tagged (syn::Type -> RuaType); the chain ends there when the type is of a
\* category without a conversion, and goes on to the error of the part of
\* the type that failed (a path, an identifier, an array length, a nested
\* type) otherwise.
C16_ChainPassesType ==
    \A k \in 1..MaxFields + 1 :
        FailsAtTypeOf(k) =>
            LET ty == input.item.fields[k].ty
                te == RuaTypeFromType(ty).err
            IN /\ output.tag = "Err"
               /\ Tagged(output.err, "syn::ItemStruct", "RuaStruct")
               /\ OneWrapperPerLevel(k)
               /\ Tagged(te, "syn::Type", "RuaType")
               /\ (ty.node \in Unsupported) <=> (Innermost(output.err) = te)

\* C16 happens: the second named field of a struct is of the never type
C16_Witness ==
    /\ FailsAtTypeOf(2)
    /\ input.item.kind = "Named"
    /\ input.item.fields[2].ty.node = "Never"
    /\ Len(Chain(output.err)) = 3

\* every parameter of the converted function is typed, with an identifier
TypedIdentParams ==
    /\ Done("RuaSigFn::try_from")
    /\ \A i \in 1..Len(input.item.inputs) :
            input.item.inputs[i].arg = "Typed" /\ input.item.inputs[i].pat # <<>>

\* C18: a function whose parameters are typed with identifiers converts to
\* the signature with its identifier as name, its parameters in their order,
\* each with its name and converted type, and its converted return type,
\* Unit when none is written (when a name or a type does not convert, to an
\* error); a bare function type converts to its parameter types in their
\* order and its return type, Unit when none is written.
C18_SignatureOfFn ==
    /\ TypedIdentParams =>
        LET item == input.item
            n == Len(item.inputs)
            name == RuaNameFromIdent(item.ident)
            pname(i) == RuaNameFromIdent(item.inputs[i].pat[1])
            pty(i) == RuaTypeFromType(item.inputs[i].ty)
            ret == IF item.output.ret = "Default" THEN OkOf(Prim("Unit"))
                   ELSE RuaTypeFromType(item.output.ty)
        IN IF /\ name.tag = "Ok"
              /\ ret.tag = "Ok"
              /\ \A i \in 1..n : pname(i).tag = "Ok" /\ pty(i).tag = "Ok"
           THEN output = OkOf([name |-> name.val,
                               params |-> [i \in 1..n |->
                                    [name |-> pname(i).val, ty |-> pty(i).val]],
                               ret |-> ret.val])
           ELSE output.tag = "Err"
    /\ (Done("RuaType::try_from(Type)") /\ input.ty.node = "BareFn"
            /\ output.tag = "Ok") =>
        output.val = Composite("Fn", Composite("Bare",
            [params |-> [i \in 1..Len(input.ty.inputs) |->
                            RuaTypeFromType(input.ty.inputs[i]).val],
             ret |-> IF input.ty.output.ret = "Default" THEN Prim("Unit")
                     ELSE RuaTypeFromType(input.ty.output.ty).val]))

\* C18 happens: fn a(a: i32, a: &str) converted, the return type is Unit
C18_Witness ==
    /\ TypedIdentParams
    /\ Len(input.item.inputs) = 2
    /\ input.item.inputs[1].ty # input.item.inputs[2].ty
    /\ input.item.output = ReturnDefault
    /\ output.tag = "Ok"
    /\ output.val.ret = Prim("Unit")
    /\ output.val.params[2].ty.ty = "Reference"

\* the converted function has a receiver among its parameters
HasReceiver ==
    /\ Done("RuaSigFn::try_from")
    /\ \E i \in 1..Len(input.item.inputs) : input.item.inputs[i] = Receiver

\* C19: a receiver does not convert to a variable, so a function with a
\* receiver among its parameters does not convert: the error returned is the
\* wrapper of the function around the error of the receiver, which ends the
\* chain and is tagged (syn::FnArg -> RuaVar).
C19_ReceiverFails ==
    /\ RuaVarFromFnArg(Receiver).tag = "Err"
    /\ HasReceiver =>
        /\ output.tag = "Err"
        /\ Tagged(Innermost(output.err), "syn::FnArg", "RuaVar")
        /\ Innermost(output.err) = RuaVarFromFnArg(Receiver).err
        /\ Len(Chain(output.err)) = 2
        /\ Tagged(output.err, "syn::ItemFn", "RuaFn")

\* C19 happens: fn a(self, a: i32) was refused
C19_Witness ==
    /\ HasReceiver
    /\ Len(input.item.inputs) = 2
    /\ input.item.inputs[1] = Receiver
    /\ input.item.inputs[2].arg = "Typed"
    /\ output.tag = "Err"

\* C22: an enum is converted name first: when its identifier is in none of
\* the cases and one of its variants does not convert, the cause of the
\* error returned is the error of the name of the enum (syn::Ident ->
\* RuaName), not the error of the variant.
C22_EnumNameFirst ==
    (/\ Done("RuaEnum::try_from")
     /\ RuaNameFromIdent(input.item.ident).tag = "Err"
     /\ \E i \in 1..Len(input.item.variants) :
            RuaStructFromVariant(input.item.variants[i]).tag = "Err") =>
        /\ output.tag = "Err"
        /\ output.err.err_source = <<RuaNameFromIdent(input.item.ident).err>>

\* C27: in the chain a failed conversion returns, the innermost error, the
\* one without a cause, is the only one with a message: every wrapper has a
\* cause and no message.
C27_MessageOnlyInnermost ==
    output.tag = "Err" =>
        LET chain == Chain(output.err)
        IN \A i \in 1..Len(chain) :
            /\ chain[i].message # <<>> <=> i = Len(chain)
            /\ chain[i].err_source = <<>> <=> i = Len(chain)
            /\ i < Len(chain) => chain[i].err_source = <<chain[i + 1]>>

\* C27 happens: a struct with a named field of a type that does not convert
\* gave a chain of three errors or more
C27_Witness ==
    /\ Done("RuaStruct::try_from")
    /\ output.tag = "Err"
    /\ Len(Chain(output.err)) >= 3
    /\ Innermost(output.err).message # <<>>
    /\ output.err.message = <<>>

----------------------------------------------------------------------------
(* Properties of the case converters. *)

RoundTripDone == Done("RuaName::convert, convert") /\ IsSnakeCase(input.name)

\* every underscore behind the first character has a letter behind it
UnderscoresLead(s) ==
    \A i \in 2..Len(s) :
        s[i] = "_" => (i < Len(s) /\ IsAsciiLowercase(s[i + 1]))

\* C29 as claimed: a name in snake case converted to camel case and back to
\* snake case is the name again.
C29_RoundTrip == RoundTripDone => output.val.name = input.name

\* C29 amended: a name in snake case converted to camel case and back to
\* snake case is the name again exactly when every underscore behind its
\* first character has a letter behind it; an underscore at the end, and one
\* in front of another underscore, is lost.
C29_RoundTripWhereUnderscoresLead ==
    RoundTripDone =>
        /\ output.val.name = input.name <=> UnderscoresLead(input.name)
        /\ output.val.case = "SnakeCase"
        /\ ~UnderscoresLead(input.name) => Len(output.val.name) < Len(input.name)

\* C29 happens: a_b went to aB and came back as a_b
C29_Witness ==
    /\ RoundTripDone
    /\ input.name = <<"a", "_", "b">>
    /\ ToCamelCase(input.name) = <<"a", "B">>
    /\ output.val.name = input.name

\* C30: on every string, to_snake_case of utils.rs gives what to_snake_case
\* of models.rs gives: the first character made small, once, and behind it
\* every later capital as an underscore and its small letter.
C30_ConvertersAgree ==
    Done("RuaCaseConverter::to_snake_case") =>
        /\ output.first = output.second
        /\ Len(output.first) = Len(input.name)
                + Cardinality({i \in 2..Len(input.name) :
                                    IsAsciiUppercase(input.name[i])})

----------------------------------------------------------------------------
(* Properties of the error builder. *)

BuilderDone == Done("ConversionErrorBuilder")

\* the fields of an error, and those a setter sets
ErrorFields ==
    {"path", "start", "end", "source_type", "target_type", "message", "err_source"}
FieldsOf(setter) == IF setter = "span" THEN {"start", "end"} ELSE {setter}

\* the fields that are set in an error
FieldsSet(err) ==
    {f \in ErrorFields :
        \/ f = "path" /\ err.path # <<>>
        \/ f = "start" /\ err.start # <<>>
        \/ f = "end" /\ err.end # <<>>
        \/ f = "source_type" /\ err.source_type # <<>>
        \/ f = "target_type" /\ err.target_type # <<>>
        \/ f = "message" /\ err.message # <<>>
        \/ f = "err_source" /\ err.err_source # <<>>}

\* the positions of the calls of build, and the one of the n-th
Builds == {i \in 1..Len(input.calls) : input.calls[i] = "build"}
BuildAt(n) ==
    CHOOSE i \in Builds : Cardinality({j \in Builds : j <= i}) = n

\* the fields the setters called at the positions of P set
SetAt(P) == UNION {FieldsOf(input.calls[i]) : i \in P \ Builds}

\* the cause the builder was created with
CauseGiven == IF input.from = <<>> THEN {} ELSE {"err_source"}

\* C24 as claimed: an error a builder builds has exactly the fields set
\* whose setters were called since the builder was created, and the cause
\* when the builder comes from builder_for_next(e), which is e; nothing
\* else of e is in it.
C24_FieldsSinceCreated ==
    BuilderDone =>
        \A n \in 1..Len(output.built) :
            /\ FieldsSet(output.built[n]) = SetAt(1..BuildAt(n)) \cup CauseGiven
            /\ input.from # <<>> => output.built[n].err_source = input.from

\* C24 amended: an error a builder builds has exactly the fields set whose
\* setters were called since the builder was created or, when it has built
\* before, since its last build; the first error of a builder that comes
\* from builder_for_next(e) has the cause e besides, and nothing else of e;
\* the later ones have no cause.
C24_FieldsSinceLastBuild ==
    BuilderDone =>
        /\ Len(output.built) = Cardinality(Builds)
        /\ \A n \in 1..Len(output.built) :
            LET since == IF n = 1 THEN 1 ELSE BuildAt(n - 1)
                err == output.built[n]
            IN /\ FieldsSet(err) = SetAt(since..BuildAt(n))
                        \cup (IF n = 1 THEN CauseGiven ELSE {})
               /\ (n = 1 /\ input.from # <<>>) => err.err_source = input.from
               /\ \A i \in since..BuildAt(n) :
                    (input.calls[i] = "message"
                        /\ input.from # <<>>) => err.message # input.from[1].message

\* C24 happens: a builder from builder_for_next(e) with span and message set
\* built an error with these and the cause e, without path and tags
C24_Witness ==
    /\ BuilderDone
    /\ input.from # <<>>
    /\ input.from[1].path # <<>>
    /\ input.calls = <<"span", "message", "build">>
    /\ FieldsSet(output.built[1]) = {"start", "end", "message", "err_source"}

\* C28: the second of two builds with no setter called between them gives
\* an error without any field, the cause included, whatever the builder
\* held at the first build.
C28_BuildDrains ==
    BuilderDone =>
        \A n \in 2..Len(output.built) :
            BuildAt(n) = BuildAt(n - 1) + 1 =>
                /\ FieldsSet(output.built[n]) = {}
                /\ output.built[n] = Build(Builder)

\* C28 happens: a builder with a cause and a message was built twice
C28_Witness ==
    /\ BuilderDone
    /\ input.from # <<>>
    /\ input.calls = <<"message", "build", "build">>
    /\ FieldsSet(output.built[1]) = {"message", "err_source"}
    /\ FieldsSet(output.built[2]) = {}

====
